---- MODULE Spec2Model ----
(***************************************************************************)
(* OpenAPI document resolution and cycle-safe bundling of don-tools-api.   *)
(*                                                                         *)
(* Documents are object graphs on a heap: a node is a mapping or a         *)
(* sequence with an identity (its index in the heap), so that in-place     *)
(* mutation, aliasing and identity cycles are what they are in the code.   *)
(* A call of the recursive resolver is a machine with an explicit call     *)
(* stack: one step per resolveNode call or return, and one per fetch       *)
(* response.                                                               *)
(***************************************************************************)
EXTENDS Integers, Sequences, FiniteSets, TLC

VARIABLES input, run

vars == <<input, run>>

(***************************************************************************)
(* Bounds of the model.                                                    *)
(***************************************************************************)
\* schemas declared in the root document
MaxSlots == 2
\* segments of a pointer handed to jsonPointerLookup on its own
MaxSegments == 3
\* depth to which two structures are compared
MatchDepth == 4

(***************************************************************************)
(* Values and heap nodes.                                                  *)
(***************************************************************************)
\* t: "s" string, "n" number, "o" object (node n of the heap), "u" undefined,
\* "m" the marker object { __circularRef, __bubble } of decycleDocument.
\* A string that is a pointer "#/a/b" is kept split at "/" in p (<<"a", "b">>;
\* "#/" is <<"">>), every other string in s.
Str(x) == [t |-> "s", s |-> x, n |-> 0, p |-> <<>>]
Num(i) == [t |-> "n", s |-> "", n |-> i, p |-> <<>>]
Obj(i) == [t |-> "o", s |-> "", n |-> i, p |-> <<>>]
Undefined == [t |-> "u", s |-> "", n |-> 0, p |-> <<>>]
PtrStr(tokens) == [t |-> "s", s |-> "#/", n |-> 0, p |-> tokens]
Marker(ref, bubble) == [t |-> "m", s |-> IF bubble THEN "bubble" ELSE "", n |-> 0, p |-> ref]
IsObj(v) == v.t = "o"
IsStr(v) == v.t = "s"
IsMarker(v) == v.t = "m"

Entry(k, v) == [k |-> k, v |-> v]
MapNode(ents) == [kind |-> "map", ents |-> ents]
SeqNode(ents) == [kind |-> "seq", ents |-> ents]

IsMapVal(heap, v) == IsObj(v) /\ heap[v.n].kind = "map"
IsSeqVal(heap, v) == IsObj(v) /\ heap[v.n].kind = "seq"

KeyIndex(ents, k) ==
  IF \E i \in 1..Len(ents) : ents[i].k = k
  THEN CHOOSE i \in 1..Len(ents) : ents[i].k = k /\ \A j \in 1..(i - 1) : ents[j].k # k
  ELSE 0

HasOwn(ents, k) == KeyIndex(ents, k) > 0
GetKey(ents, k) == IF HasOwn(ents, k) THEN ents[KeyIndex(ents, k)].v ELSE Undefined
\* node[key] = value: an own key keeps its place, a new key goes last
SetKey(ents, k, v) ==
  IF HasOwn(ents, k) THEN [ents EXCEPT ![KeyIndex(ents, k)].v = v]
  ELSE Append(ents, Entry(k, v))
DeleteKey(ents, k) == SelectSeq(ents, LAMBDA e : e.k # k)

Alloc(heap, node) == Append(heap, node)
NewId(heap) == Len(heap) + 1

(***************************************************************************)
(* URLs and reference strings.  TLC has no string operations, so what      *)
(* `new URL(ref, base)` and `startsWith("#")` yield is tabulated for the   *)
(* reference strings the documents of the model use.                       *)
(***************************************************************************)
Url(origin, file) == [origin |-> origin, file |-> file]
NoUrl == Url("", "")
ROOT_KEY == Url("", "__root__")
Origin == "https://example.com"
RootUrl == Url(Origin, "openapi.yaml")
CommonUrl == Url(Origin, "common.yaml")
OtherUrl == Url(Origin, "other.yaml")

PNode == <<"", "components", "schemas", "Node">>
PErr == <<"", "components", "schemas", "Err">>
PMissing == <<"", "components", "schemas", "Missing">>
PEmptySeg == <<"", "components", "", "schemas", "Err">>

\* form: "frag" (starts with #), "abs" (absolute URL), "rel" (relative
\* reference), "bad" (no URL at all); hash: the split fragment, <<>> if none
RefForm(form, origin, file, hash) ==
  [form |-> form, origin |-> origin, file |-> file, hash |-> hash]

RefTable ==
  ("#/components/schemas/Node" :> RefForm("frag", "", "", PNode)) @@
  ("#/components/schemas/Err" :> RefForm("frag", "", "", PErr)) @@
  ("#/components/schemas/Missing" :> RefForm("frag", "", "", PMissing)) @@
  ("#/components//schemas/Err" :> RefForm("frag", "", "", PEmptySeg)) @@
  ("https://example.com/common.yaml#/components/schemas/Err" :> RefForm("abs", Origin, "common.yaml", PErr)) @@
  ("https://example.com/common.yaml#/components/schemas/Node" :> RefForm("abs", Origin, "common.yaml", PNode)) @@
  ("common.yaml#/components/schemas/Node" :> RefForm("rel", "", "common.yaml", PNode)) @@
  ("common.yaml#/components/schemas/Missing" :> RefForm("rel", "", "common.yaml", PMissing)) @@
  ("https://example.com/common.yaml" :> RefForm("abs", Origin, "common.yaml", <<>>)) @@
  ("https://example.com/other.yaml#/components/schemas/Node" :> RefForm("abs", Origin, "other.yaml", PNode)) @@
  ("other.yaml#/components/schemas/Node" :> RefForm("rel", "", "other.yaml", PNode)) @@
  ("https://example.com/openapi.yaml#/components/schemas/Err" :> RefForm("abs", Origin, "openapi.yaml", PErr)) @@
  ("openapi.yaml#/components/schemas/Err" :> RefForm("rel", "", "openapi.yaml", PErr)) @@
  ("http://[bad" :> RefForm("bad", "", "", <<>>))

\* String.prototype.trim on the strings of the model
Trim(s) == CASE s = " " -> "" [] s = " 3.1.0 " -> "3.1.0" [] OTHER -> s

\* new URL(ref, base) / new URL(ref): [ok, url, hash]
ParseUrl(ref, base) ==
  LET f == RefTable[ref] IN
  CASE f.form = "abs" -> [ok |-> TRUE, url |-> Url(f.origin, f.file), hash |-> f.hash]
    [] f.form = "rel" /\ base # NoUrl ->
         [ok |-> TRUE, url |-> Url(base.origin, f.file), hash |-> f.hash]
    [] OTHER -> [ok |-> FALSE, url |-> NoUrl, hash |-> <<>>]

(***************************************************************************)
(* Document texts.  A text is either a YAML/JSON object document with the  *)
(* schemas of its slots, or something jsYaml.load turns into a non-object, *)
(* or something it cannot parse.  A slot is one schema under               *)
(* components/schemas.                                                     *)
(***************************************************************************)
Slot(kind, ref) == [kind |-> kind, ref |-> ref]
Text(kind, slots) == [kind |-> kind, slots |-> slots]
SlotKeys == <<"Node", "Err", "Pet", "Tag">>

\* the schema of one slot, allocated children first: [heap, v]
BuildSlot(heap, slot) ==
  CASE slot.kind = "str" -> [heap |-> heap, v |-> Str("x")]
    [] slot.kind = "ref" ->
         [heap |-> Alloc(heap, MapNode(<<Entry("$ref", Str(slot.ref))>>)),
          v |-> Obj(NewId(heap))]
    [] slot.kind = "sib" ->
         [heap |-> Alloc(heap, MapNode(<<Entry("$ref", Str(slot.ref)),
                                         Entry("description", Str("d"))>>)),
          v |-> Obj(NewId(heap))]
    [] slot.kind = "sibref" ->
         LET h1 == Alloc(heap, MapNode(<<Entry("$ref", Str("#/components/schemas/Err"))>>))
         IN [heap |-> Alloc(h1, MapNode(<<Entry("$ref", Str(slot.ref)),
                                          Entry("extra", Obj(NewId(heap)))>>)),
             v |-> Obj(NewId(h1))]
    [] slot.kind = "nested" ->
         LET h1 == Alloc(heap, MapNode(<<Entry("$ref", Str(slot.ref))>>))
         IN [heap |-> Alloc(h1, MapNode(<<Entry("$ref", Obj(NewId(heap)))>>)),
             v |-> Obj(NewId(h1))]
    [] slot.kind = "obj" ->
         [heap |-> Alloc(heap, MapNode(<<Entry("type", Str("object")),
                                         Entry("description", Str("t"))>>)),
          v |-> Obj(NewId(heap))]
    [] slot.kind = "props" ->
         LET h1 == Alloc(heap, MapNode(<<Entry("$ref", Str(slot.ref))>>))
             h2 == Alloc(h1, MapNode(<<Entry("children", Obj(NewId(heap)))>>))
             h3 == Alloc(h2, MapNode(<<Entry("type", Str("object")),
                                       Entry("properties", Obj(NewId(h1)))>>))
         IN [heap |-> h3, v |-> Obj(NewId(h2))]
    [] slot.kind = "list" ->
         LET h1 == Alloc(heap, MapNode(<<Entry("$ref", Str(slot.ref))>>))
             h2 == Alloc(h1, SeqNode(<<Entry("", Str("x")), Entry("", Obj(NewId(heap)))>>))
         IN [heap |-> h2, v |-> Obj(NewId(h1))]

RECURSIVE BuildSlots(_, _, _, _)
BuildSlots(heap, slots, i, ents) ==
  IF i > Len(slots) THEN [heap |-> heap, ents |-> ents]
  ELSE LET b == BuildSlot(heap, slots[i])
       IN BuildSlots(b.heap, slots, i + 1, Append(ents, Entry(SlotKeys[i], b.v)))

\* jsYaml.load followed by normalizeYaml (mapping keys are strings in the
\* model already): [ok, heap, v]; v is not an object for a scalar text
LoadYaml(heap, text) ==
  CASE text.kind = "garbage" -> [ok |-> FALSE, heap |-> heap, v |-> Undefined]
    [] text.kind = "scalar" -> [ok |-> TRUE, heap |-> heap, v |-> Str("just a string")]
    [] text.kind = "list" ->
         [ok |-> TRUE, heap |-> Alloc(heap, SeqNode(<<>>)), v |-> Obj(NewId(heap))]
    [] OTHER ->
         LET b == BuildSlots(heap, text.slots, 1, <<>>)
             h1 == Alloc(b.heap, MapNode(b.ents))
             h2 == Alloc(h1, MapNode(<<Entry("schemas", Obj(NewId(b.heap)))>>))
             h3 == Alloc(h2, MapNode(<<Entry("openapi", Str("3.0.3")),
                                       Entry("components", Obj(NewId(h1)))>>))
         IN [ok |-> TRUE, heap |-> h3, v |-> Obj(NewId(h2))]

(***************************************************************************)
(* deepCopy and jsonPointerLookup.                                         *)
(***************************************************************************)
RECURSIVE deepCopy(_, _), CopyEntries(_, _, _, _)
\* an inclusion that hands out the located value itself, for comparison
deepCopyShared(heap, value) == [heap |-> heap, v |-> value]

deepCopy(heap, value) ==
  IF ~IsObj(value) THEN [heap |-> heap, v |-> value]
  ELSE LET c == CopyEntries(heap, heap[value.n].ents, 1, <<>>)
       IN [heap |-> Alloc(c.heap, [kind |-> heap[value.n].kind, ents |-> c.ents]),
           v |-> Obj(NewId(c.heap))]

CopyEntries(heap, ents, i, acc) ==
  IF i > Len(ents) THEN [heap |-> heap, ents |-> acc]
  ELSE LET c == deepCopy(heap, ents[i].v)
       IN CopyEntries(c.heap, ents, i + 1, Append(acc, Entry(ents[i].k, c.v)))

\* segment.replace(/~1/g, "/").replace(/~0/g, "~")
Unescape(seg) ==
  CASE seg = "a~1b" -> "a/b"
    [] seg = "~1x" -> "/x"
    [] seg = "m~0n" -> "m~n"
    [] seg = "~01" -> "~1"
    [] OTHER -> seg

\* Number.parseInt(key, 10): [nan, n]
ParseInt(key) ==
  CASE key = "0" -> [nan |-> FALSE, n |-> 0]
    [] key = "1" -> [nan |-> FALSE, n |-> 1]
    [] key = "2" -> [nan |-> FALSE, n |-> 2]
    [] key = "1abc" -> [nan |-> FALSE, n |-> 1]
    [] key = "-1" -> [nan |-> FALSE, n |-> -1]
    [] OTHER -> [nan |-> TRUE, n |-> 0]

\* pointer is given split at "/" (<<>> for the empty pointer): [ok, v]
RECURSIVE PointerWalk(_, _, _, _)
PointerWalk(heap, current, segments, i) ==
  IF i > Len(segments) THEN [ok |-> TRUE, v |-> current]
  ELSE IF segments[i] = "" THEN PointerWalk(heap, current, segments, i + 1)
  ELSE LET key == Unescape(segments[i]) IN
    IF IsSeqVal(heap, current) THEN
      LET index == ParseInt(key) IN
      IF index.nan \/ index.n < 0 \/ index.n >= Len(heap[current.n].ents)
      THEN [ok |-> FALSE, v |-> Undefined]
      ELSE PointerWalk(heap, heap[current.n].ents[index.n + 1].v, segments, i + 1)
    ELSE IF ~IsObj(current) THEN [ok |-> FALSE, v |-> Undefined]
    ELSE IF ~HasOwn(heap[current.n].ents, key) THEN [ok |-> FALSE, v |-> Undefined]
    ELSE PointerWalk(heap, GetKey(heap[current.n].ents, key), segments, i + 1)

jsonPointerLookup(heap, doc, pointer) ==
  IF pointer = <<>> THEN [ok |-> TRUE, v |-> doc]
  ELSE PointerWalk(heap, doc, pointer, 1)

(***************************************************************************)
(* What the pointer names (RFC 6901), to compare the lookup with: every    *)
(* token after the leading "/" names a member, the empty token names the   *)
(* member "", and an index of a sequence is "0" or digits without a        *)
(* leading zero.                                                           *)
(***************************************************************************)
IsArrayIndex(token) == token \in {"0", "1", "2"}

RECURSIVE NamesExisting(_, _, _, _)
NamesExisting(heap, current, tokens, i) ==
  IF i > Len(tokens) THEN TRUE
  ELSE IF IsSeqVal(heap, current)
  THEN /\ IsArrayIndex(tokens[i])
       /\ ParseInt(tokens[i]).n < Len(heap[current.n].ents)
       /\ NamesExisting(heap, heap[current.n].ents[ParseInt(tokens[i]).n + 1].v, tokens, i + 1)
  ELSE /\ IsObj(current)
       /\ HasOwn(heap[current.n].ents, Unescape(tokens[i]))
       /\ NamesExisting(heap, GetKey(heap[current.n].ents, Unescape(tokens[i])), tokens, i + 1)

\* the value the tokens lead to from `current`: [ok, v]
RECURSIVE PointerTarget(_, _, _, _)
PointerTarget(heap, current, tokens, i) ==
  IF i > Len(tokens) THEN [ok |-> TRUE, v |-> current]
  ELSE IF IsSeqVal(heap, current)
  THEN IF IsArrayIndex(tokens[i]) /\ ParseInt(tokens[i]).n < Len(heap[current.n].ents)
       THEN PointerTarget(heap, heap[current.n].ents[ParseInt(tokens[i]).n + 1].v, tokens, i + 1)
       ELSE [ok |-> FALSE, v |-> Undefined]
  ELSE IF IsObj(current) /\ HasOwn(heap[current.n].ents, Unescape(tokens[i]))
  THEN PointerTarget(heap, GetKey(heap[current.n].ents, Unescape(tokens[i])), tokens, i + 1)
  ELSE [ok |-> FALSE, v |-> Undefined]

\* the pointer names a member or element the document does not have
NamesMissing(heap, doc, pointer) ==
  pointer # <<>> /\ ~(pointer[1] = "" /\ NamesExisting(heap, doc, pointer, 2))

(***************************************************************************)
(* The state of one dereference call.  status: "start" before the input    *)
(* is read, "run" while the resolver executes, "wait" while it is          *)
(* suspended on a fetch, "err" when an exception has left the call, "div"  *)
(* when the call has entered a recursion it never leaves, "done" when it   *)
(* has returned its document.  stack holds the suspended callers, ctl the  *)
(* resolveNode call about to run or the value just returned.  Two fields   *)
(* observe the call without taking part in it: asked, the keys getDocument *)
(* was called with, and missing, whether a fragment handed to              *)
(* jsonPointerLookup named something its document does not have.           *)
(***************************************************************************)
NoText == Text("none", <<>>)

Call(v, docKey, base) == [mode |-> "call", v |-> v, docKey |-> docKey, base |-> base]
Ret(v) == [mode |-> "ret", v |-> v, docKey |-> NoUrl, base |-> NoUrl]
Idle == [mode |-> "idle", v |-> Undefined, docKey |-> NoUrl, base |-> NoUrl]

NewMachine ==
  [heap |-> <<>>, docs |-> <<>>, resolving |-> {}, fetches |-> <<>>,
   stack |-> <<>>, ctl |-> Idle,
   status |-> "start", err |-> "", source |-> NoUrl, result |-> Undefined,
   asked |-> <<>>, missing |-> FALSE]

\* a suspended caller: op is the function that waits, the rest its locals
\* (id: the node at hand, ents and i: the loop over its entries, frag: the
\* fragment to look up, src: the node the copy was made of, known: the keys
\* of the store when the copy was made)
Frame(op, id, docKey, base) ==
  [op |-> op, id |-> id, ents |-> <<>>, i |-> 0, docKey |-> docKey, base |-> base,
   frag |-> <<>>, src |-> 0, known |-> {}]

Top(m) == m.stack[Len(m.stack)]
Pop(stack) == SubSeq(stack, 1, Len(stack) - 1)

\* throw: the exception unwinds every caller up to the boundary, running the
\* finally block of each getDocument on the way
Throw(m, kind) ==
  [m EXCEPT !.status = "err", !.err = kind, !.stack = <<>>, !.ctl = Idle,
            !.resolving = {}]

\* typeof node.$ref === "string" && node.$ref.trim().length > 0
HasRef(ents) == IsStr(GetKey(ents, "$ref")) /\ Trim(GetKey(ents, "$ref").s) # ""

\* Object.entries(resolved).forEach(([key, value]) => node[key] = value)
RECURSIVE MergeEntries(_, _, _)
MergeEntries(ents, from, i) ==
  IF i > Len(from) THEN ents
  ELSE MergeEntries(SetKey(ents, from[i].k, from[i].v), from, i + 1)

\* resolveNode returns a scalar as it is and the loops store it back where
\* it was: the loops go on at the next entry that is an object
NextObj(ents, i) ==
  IF \E j \in i..Len(ents) : IsObj(ents[j].v)
  THEN CHOOSE j \in i..Len(ents) : IsObj(ents[j].v) /\ \A k \in i..(j - 1) : ~IsObj(ents[k].v)
  ELSE Len(ents) + 1

\* a resolveNode that returns a mapping without visiting its entries, for
\* comparison
ContinueEntriesSkipped(m, f) == [m EXCEPT !.ctl = Ret(Obj(f.id))]

\* for (const [key, value] of Object.entries(node)) node[key] = await
\* this.resolveNode(value, docKey, baseUrl); return node;   f is the loop's
\* frame, not on the stack
ContinueEntries(m, f) ==
  LET j == NextObj(f.ents, f.i) IN
  IF j > Len(f.ents) THEN [m EXCEPT !.ctl = Ret(Obj(f.id))]
  ELSE [m EXCEPT !.stack = Append(@, [f EXCEPT !.i = j]),
                 !.ctl = Call(f.ents[j].v, f.docKey, f.base)]

\* for (index = 0; index < node.length; index += 1) node[index] = await
\* this.resolveNode(node[index], docKey, baseUrl); return node;
ContinueElems(m, f) ==
  LET j == NextObj(m.heap[f.id].ents, f.i) IN
  IF j > Len(m.heap[f.id].ents) THEN [m EXCEPT !.ctl = Ret(Obj(f.id))]
  ELSE [m EXCEPT !.stack = Append(@, [f EXCEPT !.i = j]),
                 !.ctl = Call(m.heap[f.id].ents[j].v, f.docKey, f.base)]

\* a resolveNode that attaches a scalar or a sequence under "value" even
\* when the node has no other key, for comparison
AfterResolveRefAttaching(m, id, resolved, targetKey, targetBase) ==
  LET ents == DeleteKey(m.heap[id].ents, "$ref") IN
  IF IsMapVal(m.heap, resolved)
  THEN [m EXCEPT !.heap[id].ents = MergeEntries(ents, m.heap[resolved.n].ents, 1),
                 !.ctl = Call(Obj(id), targetKey, targetBase)]
  ELSE [m EXCEPT !.heap[id].ents = SetKey(ents, "value", resolved),
                 !.ctl = Call(Obj(id), targetKey, targetBase)]

\* resolveNode after `await this.resolveRef(...)`: delete node.$ref, then
\* merge, replace or attach under "value"
AfterResolveRef(m, id, resolved, targetKey, targetBase) ==
  LET ents == DeleteKey(m.heap[id].ents, "$ref") IN
  IF IsMapVal(m.heap, resolved)
  THEN [m EXCEPT !.heap[id].ents = MergeEntries(ents, m.heap[resolved.n].ents, 1),
                 !.ctl = Call(Obj(id), targetKey, targetBase)]
  ELSE IF Len(ents) = 0
  THEN [m EXCEPT !.heap[id].ents = ents, !.ctl = Ret(resolved)]
  ELSE [m EXCEPT !.heap[id].ents = SetKey(ents, "value", resolved),
                 !.ctl = Call(Obj(id), targetKey, targetBase)]

\* a copy of node n is being resolved further up, and no document has been
\* added to the store since that copy was made
Including(m, n) ==
  \E i \in 1..Len(m.stack) :
    m.stack[i].op = "resolveRef" /\ m.stack[i].src = n /\ m.stack[i].known = DOMAIN m.docs

\* resolveRef: const copy = deepCopy(value); const resolved = await
\* this.resolveNode(copy, targetKey, targetBase).  Between the two copies of
\* the same node the resolver has changed copies only: the second copy is
\* resolved in the state the first one was resolved in, so its resolution
\* makes a third, and the call does not return.
Include(m, id, value, targetKey, targetBase) ==
  IF ~IsObj(value) THEN AfterResolveRef(m, id, value, targetKey, targetBase)
  ELSE IF Including(m, value.n) THEN [m EXCEPT !.status = "div"]
  ELSE LET c == deepCopy(m.heap, value) IN
       [m EXCEPT !.heap = c.heap,
                 !.stack = Append(@, [Frame("resolveRef", id, targetKey, targetBase)
                                        EXCEPT !.src = value.n, !.known = DOMAIN m.docs]),
                 !.ctl = Call(c.v, targetKey, targetBase)]

\* resolveRef after `await this.getDocument(...)`: the fragment is looked
\* up in the document
LookupFragment(m, id, document, fragment, targetKey, targetBase) ==
  LET found == jsonPointerLookup(m.heap, document, fragment)
      seen == [m EXCEPT !.missing = @ \/ NamesMissing(m.heap, document, fragment)]
  IN IF ~found.ok THEN Throw(seen, "PointerNotFound")
     ELSE Include(seen, id, found.v, targetKey, targetBase)

\* a store that never has the document, for comparison
StoreMiss(m, key) == FALSE

\* this.docs.has(key)
InStore(m, key) == key \in DOMAIN m.docs
\* this.docs.set(key, doc)
setDocument(m, key, id) ==
  [m EXCEPT !.docs = IF key \in DOMAIN @ THEN [@ EXCEPT ![key] = id] ELSE @ @@ (key :> id)]

\* the fetch is started; the call is suspended until the response
StartFetch(m, url, by) ==
  [m EXCEPT !.fetches = Append(@, [url |-> url, by |-> by]), !.status = "wait"]

\* getDocument up to its fetch (the test of this.resolving at lines 256-260
\* repeats the test of this.docs and changes nothing)
getDocument(m, id, fragment, key, url, targetBase) ==
  IF InStore(m, key)
  THEN LookupFragment(m, id, Obj(m.docs[key]), fragment, key, targetBase)
  ELSE IF url = NoUrl THEN Throw(m, "NoBaseUrl")
  ELSE StartFetch([m EXCEPT !.resolving = @ \cup {key},
                            !.stack = Append(@, [Frame("getDocument", id, key, targetBase)
                                                   EXCEPT !.frag = fragment])],
                  url, "fetchWithTimeout")

\* resolveRef up to getDocument
resolveRef(m, id, ref, docKey, baseUrl) ==
  LET startsWithHash == RefTable[ref].form = "frag"
      parsed == ParseUrl(ref, baseUrl)
      fragment == IF startsWithHash THEN RefTable[ref].hash ELSE parsed.hash
      targetUrl == IF startsWithHash THEN NoUrl ELSE parsed.url
      targetKey == IF startsWithHash THEN docKey ELSE parsed.url
      targetBase == IF startsWithHash THEN baseUrl ELSE parsed.url
  IN IF ~startsWithHash /\ ~parsed.ok THEN Throw(m, "InvalidReference")
     ELSE getDocument([m EXCEPT !.asked = Append(@, targetKey)],
                      id, fragment, targetKey, targetUrl, targetBase)

(***************************************************************************)
(* dereference: the root document.                                         *)
(***************************************************************************)
\* dereference from `const { contents, source } = specInput` to the call of
\* resolver.resolveNode(normalized, ROOT_KEY, baseUrl); source is NoUrl for
\* "request-body"
LoadRoot(m, contents, source) ==
  LET y == LoadYaml(m.heap, contents) IN
  IF contents.kind = "blank" THEN Throw(m, "EmptyInput")
  ELSE IF ~y.ok THEN Throw(m, "ParseFailed")
  ELSE IF ~IsMapVal(y.heap, y.v) THEN Throw(m, "RootNotObject")
  ELSE [setDocument([m EXCEPT !.heap = y.heap], ROOT_KEY, y.v.n)
          EXCEPT !.status = "run", !.source = source,
                 !.ctl = Call(y.v, ROOT_KEY, source)]

\* resolveOasInput: the body if there is one, else the document at oasUrl
ResolveOasInput ==
  /\ run.status = "start"
  /\ run' = IF input.oasBody # NoText /\ input.oasBody.kind # "blank"
            THEN LoadRoot(run, input.oasBody, NoUrl)
            ELSE IF input.oasUrl # NoUrl
            THEN StartFetch(run, input.oasUrl, "fetchRemoteSpecification")
            ELSE Throw(run, "NoInput")
  /\ UNCHANGED input

(***************************************************************************)
(* resolveNode: calls.                                                     *)
(***************************************************************************)
Calling == run.status = "run" /\ run.ctl.mode = "call"
Returning == run.status = "run" /\ run.ctl.mode = "ret"

\* if (Array.isArray(node)) { for ... }
ResolveNodeSeq ==
  /\ Calling /\ IsSeqVal(run.heap, run.ctl.v)
  /\ run' = ContinueElems(run, [Frame("elems", run.ctl.v.n, run.ctl.docKey, run.ctl.base)
                                  EXCEPT !.i = 1])
  /\ UNCHANGED input

\* if (typeof node.$ref === "string" && ...) { resolved = await
\* this.resolveRef(node.$ref.trim(), docKey, baseUrl); ... }
ResolveNodeRef ==
  /\ Calling /\ IsMapVal(run.heap, run.ctl.v) /\ HasRef(run.heap[run.ctl.v.n].ents)
  /\ run' = resolveRef(run, run.ctl.v.n,
                       Trim(GetKey(run.heap[run.ctl.v.n].ents, "$ref").s),
                       run.ctl.docKey, run.ctl.base)
  /\ UNCHANGED input

\* for (const [key, value] of Object.entries(node)) { ... }
ResolveNodeMap ==
  /\ Calling /\ IsMapVal(run.heap, run.ctl.v) /\ ~HasRef(run.heap[run.ctl.v.n].ents)
  /\ run' = ContinueEntries(run, [Frame("entries", run.ctl.v.n, run.ctl.docKey, run.ctl.base)
                                    EXCEPT !.ents = run.heap[run.ctl.v.n].ents, !.i = 1])
  /\ UNCHANGED input

(***************************************************************************)
(* resolveNode, resolveRef, getDocument: returns.                          *)
(***************************************************************************)
Popped(m) == [m EXCEPT !.stack = Pop(@)]

\* node[key] = <result>, next entry
ReturnToEntries ==
  /\ Returning /\ run.stack # <<>> /\ Top(run).op = "entries"
  /\ LET f == Top(run)
         m == [Popped(run) EXCEPT !.heap[f.id].ents = SetKey(@, f.ents[f.i].k, run.ctl.v)]
     IN run' = ContinueEntries(m, [f EXCEPT !.i = @ + 1])
  /\ UNCHANGED input

\* node[index] = <result>, next index
ReturnToElems ==
  /\ Returning /\ run.stack # <<>> /\ Top(run).op = "elems"
  /\ LET f == Top(run)
         m == [Popped(run) EXCEPT !.heap[f.id].ents[f.i].v = run.ctl.v]
     IN run' = ContinueElems(m, [f EXCEPT !.i = @ + 1])
  /\ UNCHANGED input

\* resolveRef returns what resolveNode made of the copy
ReturnToResolveRef ==
  /\ Returning /\ run.stack # <<>> /\ Top(run).op = "resolveRef"
  /\ LET f == Top(run)
     IN run' = AfterResolveRef(Popped(run), f.id, run.ctl.v, f.docKey, f.base)
  /\ UNCHANGED input

\* getDocument: return normalized; finally this.resolving.delete(key)
ReturnToGetDocument ==
  /\ Returning /\ run.stack # <<>> /\ Top(run).op = "getDocument"
  /\ LET f == Top(run)
         m == [Popped(run) EXCEPT !.resolving = @ \ {f.docKey}]
     IN run' = LookupFragment(m, f.id, Obj(m.docs[f.docKey]), f.frag, f.docKey, f.base)
  /\ UNCHANGED input

\* dereference after `await resolver.resolveNode(...)`
ReturnToDereference ==
  /\ Returning /\ run.stack = <<>>
  /\ run' = IF IsMapVal(run.heap, run.ctl.v)
            THEN [run EXCEPT !.status = "done", !.result = run.ctl.v, !.ctl = Idle]
            ELSE Throw(run, "UnexpectedStructure")
  /\ UNCHANGED input

(***************************************************************************)
(* Responses to the fetch the call is suspended on.                        *)
(***************************************************************************)
Pending == run.fetches[Len(run.fetches)]

\* a getDocument that resolves the document it has fetched without having
\* registered it, for comparison
FetchedUnregistered(m, contents) ==
  LET f == Top(m)
      y == LoadYaml(m.heap, contents)
  IN IF ~y.ok THEN Throw(m, "ParseFailed")
     ELSE IF ~IsMapVal(y.heap, y.v) THEN Throw(m, "NotAnObject")
     ELSE [m EXCEPT !.heap = y.heap, !.status = "run", !.ctl = Call(y.v, f.docKey, f.docKey)]

\* getDocument from `parsed = jsYaml.load(contents)` to
\* `await this.resolveNode(normalized, key, url)`
Fetched(m, contents) ==
  LET f == Top(m)
      y == LoadYaml(m.heap, contents)
  IN IF ~y.ok THEN Throw(m, "ParseFailed")
     ELSE IF ~IsMapVal(y.heap, y.v) THEN Throw(m, "NotAnObject")
     ELSE [setDocument([m EXCEPT !.heap = y.heap], f.docKey, y.v.n)
             EXCEPT !.status = "run", !.ctl = Call(y.v, f.docKey, f.docKey)]

\* response.ok: the text at the URL
FetchSucceeds ==
  /\ run.status = "wait"
  /\ run' = IF Pending.by = "fetchRemoteSpecification"
            THEN LoadRoot(run, input.world[Pending.url], Pending.url)
            ELSE Fetched(run, input.world[Pending.url])
  /\ UNCHANGED input

\* the AbortController of fetchWithTimeout fires after REQUEST_TIMEOUT_MS
FetchTimesOut ==
  /\ run.status = "wait"
  /\ Pending.by = "fetchWithTimeout"
  /\ run' = Throw(run, "Timeout")
  /\ UNCHANGED input

\* !response.ok
FetchGetsStatus ==
  /\ run.status = "wait"
  /\ run' = Throw(run, IF Pending.by = "fetchWithTimeout" THEN "Status" ELSE "InputFetchFailed")
  /\ UNCHANGED input

\* a fetcher that asks again after a network error, for comparison
FetchFailsAndRetries ==
  /\ run.status = "wait"
  /\ run' = IF Pending.by = "fetchWithTimeout" /\ Len(run.fetches) < 4
            THEN StartFetch(run, Pending.url, Pending.by)
            ELSE Throw(run, IF Pending.by = "fetchWithTimeout" THEN "Network"
                                                             ELSE "InputFetchFailed")
  /\ UNCHANGED input

\* fetch rejects: network error
FetchFails ==
  /\ run.status = "wait"
  /\ run' = Throw(run, IF Pending.by = "fetchWithTimeout" THEN "Network" ELSE "InputFetchFailed")
  /\ UNCHANGED input

(***************************************************************************)
(* The requests and the documents on the network.                          *)
(***************************************************************************)
\* the first schema of the root document (Node)
NodeSlots ==
  { Slot("str", ""),
    Slot("ref", "#/components/schemas/Err"),
    Slot("ref", "#/components/schemas/Missing"),
    Slot("ref", "#/components//schemas/Err"),
    Slot("props", "#/components/schemas/Node"),
    Slot("ref", "https://example.com/common.yaml#/components/schemas/Node"),
    Slot("ref", "common.yaml#/components/schemas/Node"),
    Slot("ref", "https://example.com/common.yaml"),
    Slot("ref", "https://example.com/other.yaml#/components/schemas/Node"),
    Slot("ref", "https://example.com/openapi.yaml#/components/schemas/Err"),
    Slot("ref", "openapi.yaml#/components/schemas/Err"),
    Slot("sib", "#/components/schemas/Err"),
    Slot("sibref", "https://example.com/common.yaml#/components/schemas/Node"),
    Slot("list", "https://example.com/common.yaml#/components/schemas/Err"),
    Slot("nested", "#/components/schemas/Err"),
    Slot("ref", "http://[bad") }

\* the schemas after it (Err, Pet, ...)
MoreSlots ==
  { Slot("str", ""),
    Slot("ref", "#/components/schemas/Node"),
    Slot("ref", "#/components/schemas/Missing"),
    Slot("ref", "https://example.com/common.yaml#/components/schemas/Err") }

\* sequences over S of length 0..n
RECURSIVE SlotSeqs(_, _)
SlotSeqs(S, n) ==
  IF n = 0 THEN {<<>>}
  ELSE LET shorter == SlotSeqs(S, n - 1)
       IN shorter \cup {Append(sq, x) : sq \in {q \in shorter : Len(q) = n - 1}, x \in S}

RootTexts ==
  {Text("doc", <<first>> \o more) : first \in NodeSlots, more \in SlotSeqs(MoreSlots, MaxSlots - 1)}

CommonTexts ==
  { Text("doc", <<Slot("str", ""), Slot("str", "")>>),
    Text("doc", <<Slot("ref", "#/components/schemas/Err"), Slot("str", "")>>),
    Text("doc", <<Slot("ref", "other.yaml#/components/schemas/Node"), Slot("str", "")>>),
    Text("doc", <<Slot("str", ""),
                  Slot("ref", "https://example.com/common.yaml#/components/schemas/Node")>>),
    Text("doc", <<Slot("props", "#/components/schemas/Node")>>),
    Text("doc", <<Slot("list", "#/components/schemas/Err"), Slot("obj", "")>>),
    Text("garbage", <<>>),
    Text("scalar", <<>>) }

OtherTexts ==
  { Text("doc", <<Slot("str", "")>>),
    Text("doc", <<Slot("ref", "https://example.com/common.yaml#/components/schemas/Node")>>) }

World(root, common, other) ==
  (RootUrl :> root) @@ (CommonUrl :> common) @@ (OtherUrl :> other)

Request(oasBody, oasUrl, world) == [oasBody |-> oasBody, oasUrl |-> oasUrl, world |-> world]

Inputs ==
  {Request(root, NoUrl, World(root, common, other)) :
     root \in RootTexts, common \in CommonTexts, other \in OtherTexts}
  \cup
  {Request(NoText, RootUrl, World(root, common, other)) :
     root \in RootTexts \cup {Text("blank", <<>>), Text("list", <<>>)},
     common \in CommonTexts, other \in OtherTexts}
  \cup
  {Request(Text("blank", <<>>), NoUrl, World(NoText, NoText, NoText))}

(***************************************************************************)
(* One call of dereference.                                                *)
(***************************************************************************)
Init ==
  /\ input \in Inputs
  /\ run = NewMachine

Next ==
  \/ ResolveOasInput
  \/ ResolveNodeSeq
  \/ ResolveNodeRef
  \/ ResolveNodeMap
  \/ ReturnToEntries
  \/ ReturnToElems
  \/ ReturnToResolveRef
  \/ ReturnToGetDocument
  \/ ReturnToDereference
  \/ FetchSucceeds
  \/ FetchTimesOut
  \/ FetchGetsStatus
  \/ FetchFails

Spec == Init /\ [][Next]_vars

(***************************************************************************)
(* Properties of the JS dereference call.                                  *)
(***************************************************************************)
Urls == {RootUrl, CommonUrl, OtherUrl}

\* invocations of the resolver's fetcher for the document at u
FetchCount(u) ==
  Cardinality({i \in 1..Len(run.fetches) :
                 run.fetches[i].url = u /\ run.fetches[i].by = "fetchWithTimeout"})
\* fetches of the document at u, by whom ever
TotalFetchCount(u) == Cardinality({i \in 1..Len(run.fetches) : run.fetches[i].url = u})
\* references met so far whose target document is u
AskedCount(u) == Cardinality({i \in 1..Len(run.asked) : run.asked[i] = u})

\* Claim C1: in one dereference call, for every absolute document URI U the
\* resolver's fetcher has been invoked exactly once for U as soon as one or
\* more references with target document U have been met, and never more
\* than once: every later reference to U is served from the store.
NoDuplicateFetch ==
  \A u \in Urls : /\ FetchCount(u) <= 1
                  /\ AskedCount(u) >= 1 <=> FetchCount(u) = 1

\* two references to common.yaml from two places, resolved with one fetch
NoDuplicateFetchWitness ==
  /\ run.status = "done"
  /\ AskedCount(CommonUrl) >= 2
  /\ FetchCount(CommonUrl) = 1

\* Claim C2: for every finite set of input documents, also with a schema
\* that references itself directly or through a chain of references, the
\* resolution terminates: the call never enters a recursion it does not
\* leave.
ResolveTerminates == run.status # "div"

\* Claim C7: when the root document was loaded from the URL U (oasUrl), the
\* document at U is fetched at most once in the whole call, also when
\* references name U as their target document.
RootFetchedAtMostOnce ==
  input.oasUrl # NoUrl => TotalFetchCount(input.oasUrl) <= 1

\* Claim C9: when a fragment handed to the lookup names a key the target
\* document does not have, the call fails with the pointer-not-found error
\* and returns no document.
MissingKeyFails ==
  run.missing => /\ run.status = "err"
                 /\ run.err = "PointerNotFound"
                 /\ run.result = Undefined

\* Claim C10: a fetch of getDocument that ends with a timeout, a network
\* error or a non-success status leaves no document under its key in the
\* store, has been the only invocation of the fetcher for that key, and
\* makes the dereference call fail without a document.
FailedFetchFailsCall ==
  run.err \in {"Timeout", "Network", "Status"} =>
    /\ run.status = "err"
    /\ run.result = Undefined
    /\ Pending.by = "fetchWithTimeout"
    /\ Pending.url \notin DOMAIN run.docs
    /\ FetchCount(Pending.url) = 1

\* the fetch of other.yaml fails after common.yaml has been stored
FailedFetchFailsCallWitness ==
  /\ run.status = "err"
  /\ run.err \in {"Timeout", "Network", "Status"}
  /\ Pending.url = OtherUrl
  /\ CommonUrl \in DOMAIN run.docs

\* the document under key k is being resolved by the getDocument that has
\* fetched it: the call of resolveNode(normalized, key, url) has not returned
SelfResolving(k) ==
  \E i \in 1..Len(run.stack) :
    /\ run.stack[i].op = "getDocument"
    /\ run.stack[i].docKey = k
    /\ i < Len(run.stack) \/ run.status # "wait"

\* Claim C19: a fetched document is in the Document Store before its own
\* resolution starts, so that while it is being resolved every reference
\* to it (`#`, its own URI, directly or back through another fetched
\* document) is served from the store: it has been fetched once, and no
\* fetch of it is outstanding.
RegisteredBeforeSelfResolution ==
  \A k \in Urls :
    SelfResolving(k) =>
      /\ InStore(run, k)
      /\ FetchCount(k) = 1
      /\ run.status = "wait" => Pending.url # k

\* common.yaml is being resolved, has led to other.yaml, and the reference
\* of other.yaml back to common.yaml has been served
RegisteredBeforeSelfResolutionWitness ==
  /\ SelfResolving(CommonUrl) /\ SelfResolving(OtherUrl)
  /\ run.status = "run"
  /\ AskedCount(CommonUrl) >= 2
  /\ FetchCount(CommonUrl) = 1
  /\ \E i \in 1..Len(run.stack) :
       /\ run.stack[i].op = "resolveRef" /\ run.stack[i].docKey = CommonUrl
       /\ \E j \in 1..(i - 1) : run.stack[j].op = "getDocument" /\ run.stack[j].docKey = OtherUrl


\* the text the document under key k was parsed from
TextOf(k) ==
  IF k # ROOT_KEY THEN input.world[k]
  ELSE IF input.oasBody # NoText /\ input.oasBody.kind # "blank" THEN input.oasBody
  ELSE input.world[input.oasUrl]
\* the nodes jsYaml.load has made for the document under key k: the root
\* is the last of them
ParsedNodes(k) ==
  (run.docs[k] - Len(LoadYaml(<<>>, TextOf(k)).heap) + 1) .. run.docs[k]
\* the keys of the documents node n appears in as parsed (none for a copy)
Home(n) == {k \in DOMAIN run.docs : n \in ParsedNodes(k)}

\* Claim C20: every `$ref` string is interpreted relative to the document
\* in which it appears: a reference of a node a document was parsed with,
\* a sibling of a cross-document `$ref` included, is resolved with that
\* document's key as its context.
RefsReadInOwnDocument ==
  Calling /\ IsMapVal(run.heap, run.ctl.v) /\ HasRef(run.heap[run.ctl.v.n].ents) =>
    \A k \in Home(run.ctl.v.n) : run.ctl.docKey = k


(***************************************************************************)
(* Two dereference calls in one process.  There is one JS heap; a call     *)
(* runs until it is suspended on a fetch, and then the event loop may run  *)
(* the other call.  run is the call that is running, with the suspended    *)
(* call in its field peer (and the request of that call in input.peer):    *)
(* the steps of a call are the steps of the single call above.             *)
(***************************************************************************)
\* the machine m as the running call, next to the suspended call p
Running(m, p) ==
  [heap |-> m.heap, docs |-> m.docs, resolving |-> m.resolving, fetches |-> m.fetches,
   stack |-> m.stack, ctl |-> m.ctl, status |-> m.status, err |-> m.err,
   source |-> m.source, result |-> m.result, asked |-> m.asked, missing |-> m.missing,
   peer |-> p]

\* the running call as a suspended one
Suspended(m) ==
  [heap |-> <<>>, docs |-> m.docs, resolving |-> m.resolving, fetches |-> m.fetches,
   stack |-> m.stack, ctl |-> m.ctl, status |-> m.status, err |-> m.err,
   source |-> m.source, result |-> m.result, asked |-> m.asked, missing |-> m.missing]

\* one resolver for the whole module, for comparison: the store a call
\* works with is the one the call before it worked with
ModuleResolver(m, other) == other.docs

\* const resolver = new RefResolver(): the store a call works with is the
\* one it has constructed itself
NewRefResolver(m, other) == m.docs

\* the running call is suspended (or has ended) and the other call runs
Switch ==
  /\ run.status \in {"start", "wait", "done", "err", "div"}
  /\ run.peer.status \in {"start", "wait"}
  /\ run' = Running([run.peer EXCEPT !.heap = run.heap,
                                     !.docs = NewRefResolver(run.peer, run)],
                    Suspended(run))
  /\ input' = [oasBody |-> input.peer.oasBody, oasUrl |-> input.peer.oasUrl,
               world |-> input.world,
               peer |-> [oasBody |-> input.oasBody, oasUrl |-> input.oasUrl]]

\* two requests, each naming a body or a URL, and the documents on the network
PairInputs ==
  LET roots ==
        { Text("doc", <<Slot("ref", "https://example.com/common.yaml#/components/schemas/Node")>>),
          Text("doc", <<Slot("list", "https://example.com/common.yaml#/components/schemas/Err"),
                        Slot("str", "")>>),
          Text("doc", <<Slot("ref", "https://example.com/other.yaml#/components/schemas/Node")>>) }
      commons ==
        { Text("doc", <<Slot("str", ""), Slot("str", "")>>),
          Text("doc", <<Slot("sib", "#/components/schemas/Err"), Slot("str", "")>>),
          Text("doc", <<Slot("ref", "other.yaml#/components/schemas/Node"), Slot("str", "")>>) }
      calls ==
        {[oasBody |-> root, oasUrl |-> NoUrl] : root \in roots}
        \cup {[oasBody |-> NoText, oasUrl |-> RootUrl]}
  IN {[oasBody |-> a.oasBody, oasUrl |-> a.oasUrl, world |-> World(root, common, other),
       peer |-> b] :
        a \in calls, b \in calls, root \in roots, common \in commons, other \in OtherTexts}

PairInit ==
  /\ input \in PairInputs
  /\ run = Running(NewMachine, Suspended(NewMachine))

PairSpec == PairInit /\ [][Next \/ Switch]_vars

\* invocations of the resolver's fetcher for u by the call m, and the
\* references of m whose target document is u
CallFetchCount(m, u) ==
  Cardinality({i \in 1..Len(m.fetches) :
                 m.fetches[i].url = u /\ m.fetches[i].by = "fetchWithTimeout"})
CallAskedCount(m, u) == Cardinality({i \in 1..Len(m.asked) : m.asked[i] = u})

\* the nodes reachable from the nodes S
RECURSIVE Closure(_, _)
Closure(heap, S) ==
  LET T == S \cup UNION {{heap[n].ents[i].v.n :
                             i \in {j \in 1..Len(heap[n].ents) : IsObj(heap[n].ents[j].v)}} :
                          n \in S}
  IN IF T = S THEN S ELSE Closure(heap, T)

\* the nodes of the documents registered in a store
StoreNodes(heap, docs) == Closure(heap, {docs[k] : k \in DOMAIN docs})

\* Claim C11: of two dereference calls interleaved at their fetches, each
\* has its own store: each call has fetched exactly the URIs it has met
\* references to itself, no document is registered in both stores, and no
\* step changes a node of a document registered by the suspended call.
StoresAreSeparate ==
  /\ [](\A u \in Urls :
          /\ CallAskedCount(run, u) >= 1 <=> CallFetchCount(run, u) = 1
          /\ CallAskedCount(run.peer, u) >= 1 <=> CallFetchCount(run.peer, u) = 1)
  /\ [](\A k \in DOMAIN run.docs : \A k2 \in DOMAIN run.peer.docs :
          run.docs[k] # run.peer.docs[k2])
  /\ [][\A n \in StoreNodes(run.heap, run.peer.docs) : run'.heap[n] = run.heap[n]]_vars

\* both calls have returned, and each has fetched common.yaml itself
StoresAreSeparateWitness ==
  /\ run.status = "done" /\ run.peer.status = "done"
  /\ CallFetchCount(run, CommonUrl) = 1 /\ CallFetchCount(run.peer, CommonUrl) = 1
  /\ CommonUrl \in DOMAIN run.docs /\ CommonUrl \in DOMAIN run.peer.docs

(***************************************************************************)
(* decycleDocument (OasBundleService.js).  The input is an object graph    *)
(* with identity cycles and shared nodes, as left by a bundler that        *)
(* dereferences in place; the output is built from new nodes, appended to  *)
(* the heap after the input graph.  One step per call of visit and one per *)
(* return.                                                                 *)
(***************************************************************************)
\* segment.replace(/~/g, "~0").replace(/\//g, "~1")
escapeJsonPointer(segment) ==
  CASE segment = "/x" -> "~1x"
    [] segment = "a/b" -> "a~1b"
    [] segment = "m~n" -> "m~0n"
    [] OTHER -> segment

\* String(part), index.toString()
NumStr(i) == CASE i = 0 -> "0" [] i = 1 -> "1" [] i = 2 -> "2" [] OTHER -> "3"
String(part) == IF part.t = "n" THEN NumStr(part.n) ELSE part.s

\* a path is a sequence of keys (strings) and indexes (numbers)
buildJsonPointer(path) ==
  IF Len(path) = 0 THEN <<"">>
  ELSE [i \in 1..Len(path) |-> escapeJsonPointer(String(path[i]))]

\* the test of findComponentPointer at position i of the path
ComponentAt(path, i) ==
  \/ path[i] = Str("components") /\ i + 2 <= Len(path)
       /\ IsStr(path[i + 1]) /\ IsStr(path[i + 2])
  \/ path[i] = Str("definitions") /\ i + 1 <= Len(path) /\ IsStr(path[i + 1])

\* <<>> stands for null
findComponentPointer(path) ==
  IF \E i \in 1..Len(path) : ComponentAt(path, i)
  THEN LET i == CHOOSE j \in 1..Len(path) :
                  ComponentAt(path, j) /\ \A k \in 1..(j - 1) : ~ComponentAt(path, k)
       IN IF path[i] = Str("components") /\ i + 2 <= Len(path)
               /\ IsStr(path[i + 1]) /\ IsStr(path[i + 2])
          THEN <<"components", escapeJsonPointer(path[i + 1].s),
                 escapeJsonPointer(path[i + 2].s)>>
          ELSE <<"definitions", escapeJsonPointer(path[i + 1].s)>>
  ELSE <<>>

\* { $ref: ref }
RefNode(ref) == MapNode(<<Entry("$ref", PtrStr(ref))>>)

\* the state of one decycleDocument call: stack, pointers and
\* componentPointers are the WeakSet and the WeakMaps of the code, frames
\* the suspended calls of visit, size the number of nodes of the input
\* graph.  emitted observes the { $ref } objects made: which node of the
\* input each stands for.
VisitCall(node, path, parentKey) ==
  [mode |-> "call", v |-> node, path |-> path, parentKey |-> parentKey]
VisitRet(v) == [mode |-> "ret", v |-> v, path |-> <<>>, parentKey |-> ""]

NewDecycle(heap, value) ==
  [heap |-> heap, size |-> Len(heap), stack |-> {}, pointers |-> <<>>,
   componentPointers |-> <<>>, frames |-> <<>>,
   ctl |-> VisitCall(value, <<>>, ""), status |-> "run", result |-> Undefined,
   emitted |-> <<>>]

VisitFrame(node, path) ==
  [node |-> node, path |-> path, i |-> 1, copy |-> <<>>, bubbleRef |-> <<>>]

\* WeakMap.get(node) || other
GetOr(map, n, other) == IF n \in DOMAIN map /\ map[n] # <<>> THEN map[n] ELSE other
\* WeakMap.set(node, value)
SetMap(map, n, value) ==
  IF n \in DOMAIN map THEN [map EXCEPT ![n] = value] ELSE map @@ (n :> value)

\* a decycle that puts the { $ref } in the place of the node it stands for,
\* for comparison
EmitRefInPlace(m, ref, of) ==
  [m EXCEPT !.heap = Alloc([@ EXCEPT ![of] = RefNode(ref)], RefNode(ref)),
            !.emitted = Append(@, [out |-> NewId(m.heap), ref |-> ref, of |-> of])]

\* a new { $ref: ref } that stands for node `of` of the input
EmitRef(m, ref, of) ==
  [m EXCEPT !.heap = Alloc(@, RefNode(ref)),
            !.emitted = Append(@, [out |-> NewId(m.heap), ref |-> ref, of |-> of])]

\* copy.map((entry) => (entry && entry.__circularRef ? { $ref: ... } : entry))
RECURSIVE ReplaceMarkers(_, _, _, _, _)
ReplaceMarkers(m, copy, elems, i, acc) ==
  IF i > Len(copy) THEN [m |-> m, ents |-> acc]
  ELSE IF IsMarker(copy[i].v)
  THEN LET e == EmitRef(m, copy[i].v.p, elems[i].v.n)
       IN ReplaceMarkers(e, copy, elems, i + 1, Append(acc, Entry("", Obj(NewId(m.heap)))))
  ELSE ReplaceMarkers(m, copy, elems, i + 1, Append(acc, copy[i]))

\* visit after the loop over the children: stack.delete(node) and the value
\* returned
LeaveNode(m, f) ==
  LET left == [m EXCEPT !.stack = @ \ {f.node}] IN
  IF m.heap[f.node].kind = "seq"
  THEN IF \E i \in 1..Len(f.copy) : IsMarker(f.copy[i].v) /\ f.copy[i].v.s = "bubble"
       THEN LET i == CHOOSE j \in 1..Len(f.copy) :
                       /\ IsMarker(f.copy[j].v) /\ f.copy[j].v.s = "bubble"
                       /\ \A k \in 1..(j - 1) :
                            ~(IsMarker(f.copy[k].v) /\ f.copy[k].v.s = "bubble")
                e == EmitRef(left, f.copy[i].v.p, f.node)
            IN [e EXCEPT !.ctl = VisitRet(Obj(NewId(left.heap)))]
       ELSE LET r == ReplaceMarkers(left, f.copy, m.heap[f.node].ents, 1, <<>>)
            IN [r.m EXCEPT !.heap = Alloc(@, SeqNode(r.ents)),
                           !.ctl = VisitRet(Obj(NewId(r.m.heap)))]
  ELSE IF f.bubbleRef # <<>>
  THEN LET e == EmitRef(left, f.bubbleRef, f.node)
       IN [e EXCEPT !.ctl = VisitRet(Obj(NewId(left.heap)))]
  ELSE [left EXCEPT !.heap = Alloc(@, MapNode(f.copy)),
                    !.ctl = VisitRet(Obj(NewId(left.heap)))]

\* the loop over the children of the node of frame f (f is not on frames)
ContinueVisit(m, f) ==
  LET ents == m.heap[f.node].ents IN
  IF f.i > Len(ents) THEN LeaveNode(m, f)
  ELSE IF m.heap[f.node].kind = "seq"
  THEN [m EXCEPT !.frames = Append(@, f),
                 !.ctl = VisitCall(ents[f.i].v, Append(f.path, Num(f.i - 1)),
                                   NumStr(f.i - 1))]
  ELSE [m EXCEPT !.frames = Append(@, f),
                 !.ctl = VisitCall(ents[f.i].v, Append(f.path, Str(ents[f.i].k)),
                                   ents[f.i].k)]

\* a visit that returns a node it has seen before as it is, for comparison
IsLeafOrSeen(m, v) == ~IsObj(v) \/ (v.n \in DOMAIN m.pointers /\ v.n \notin m.stack)
\* a visiting set that never has the node, for comparison
NeverOnStack(m, v) == FALSE

\* if (!node || typeof node !== "object") return node;  (m is not looked at)
IsLeaf(m, v) == ~IsObj(v)
\* stack.has(node)
OnStack(m, v) == v.n \in m.stack
\* no bubbling at all, for comparison
noBubbleKeys == {}
\* bubbleKeys.has(parentKey)
bubbleKeys == {"properties"}

VisitCalling == run.status = "run" /\ run.ctl.mode = "call"
VisitReturning == run.status = "run" /\ run.ctl.mode = "ret"

\* visit of a scalar
VisitLeaf ==
  /\ VisitCalling /\ IsLeaf(run, run.ctl.v)
  /\ run' = [run EXCEPT !.ctl = VisitRet(run.ctl.v)]
  /\ UNCHANGED input

\* visit of a node that is being visited: the marker
VisitOnStack ==
  /\ VisitCalling /\ ~IsLeaf(run, run.ctl.v) /\ OnStack(run, run.ctl.v)
  /\ LET n == run.ctl.v.n
         preferredRef == GetOr(run.componentPointers, n,
                               GetOr(run.pointers, n, buildJsonPointer(run.ctl.path)))
     IN run' = [run EXCEPT !.ctl = VisitRet(Marker(preferredRef,
                                                   run.ctl.parentKey \in bubbleKeys))]
  /\ UNCHANGED input

\* visit of a mapping or sequence that is not being visited, up to the
\* visit of its first child
VisitNode ==
  /\ VisitCalling /\ ~IsLeaf(run, run.ctl.v) /\ ~OnStack(run, run.ctl.v)
  /\ LET n == run.ctl.v.n
         pointer == GetOr(run.pointers, n, buildJsonPointer(run.ctl.path))
         componentPointer == GetOr(run.componentPointers, n,
                                   findComponentPointer(run.ctl.path))
         m == [run EXCEPT !.pointers = SetMap(@, n, pointer),
                          !.componentPointers =
                             IF componentPointer # <<>>
                             THEN SetMap(@, n, componentPointer) ELSE @,
                          !.stack = @ \cup {n}]
     IN run' = ContinueVisit(m, VisitFrame(n, run.ctl.path))
  /\ UNCHANGED input

\* visit of a child has returned `processed` to the loop of its parent
ReturnToVisit ==
  /\ VisitReturning /\ run.frames # <<>>
  /\ LET f == run.frames[Len(run.frames)]
         processed == run.ctl.v
         key == run.heap[f.node].ents[f.i].k
         child == run.heap[f.node].ents[f.i].v
         m == [run EXCEPT !.frames = Pop(@)]
     IN run' =
          IF run.heap[f.node].kind = "seq"
          THEN ContinueVisit(m, [f EXCEPT !.copy = Append(@, Entry("", processed)),
                                          !.i = @ + 1])
          ELSE IF IsMarker(processed) /\ processed.s = "bubble"
          THEN ContinueVisit(m, [f EXCEPT !.bubbleRef = processed.p, !.i = @ + 1])
          ELSE IF IsMarker(processed)
          THEN ContinueVisit(EmitRef(m, processed.p, child.n),
                             [f EXCEPT !.copy = SetKey(@, key, Obj(NewId(m.heap))),
                                       !.i = @ + 1])
          ELSE ContinueVisit(m, [f EXCEPT !.copy = SetKey(@, key, processed), !.i = @ + 1])
  /\ UNCHANGED input

\* return visit(value, [], "")
ReturnFromDecycle ==
  /\ VisitReturning /\ run.frames = <<>>
  /\ run' = [run EXCEPT !.status = "done", !.result = run.ctl.v]
  /\ UNCHANGED input

(***************************************************************************)
(* The graphs decycleDocument is given: a document with                    *)
(* components/schemas/Node (and Other) and paths, the root keys and the    *)
(* schemas in either order, and edges that close cycles on the root, on a  *)
(* component, on a node nested in a component, under `properties`, or      *)
(* share a node between parents.  Heap: 1 root, 2 components, 3 schemas,   *)
(* 4 Node, 5 Node.properties, 6 Other, 7 paths, 8 a mapping that is its    *)
(* own `items`, 9 a sequence with Node in it.                              *)
(***************************************************************************)
Target(name) ==
  CASE name = "root" -> Obj(1)
    [] name = "Node" -> Obj(4)
    [] name = "props" -> Obj(5)
    [] name = "Other" -> Obj(6)
    [] name = "nested" -> Obj(8)
    [] name = "list" -> Obj(9)
    [] OTHER -> Str("x")

KeyTarget(key) ==
  CASE key = "components" -> Obj(2)
    [] key = "paths" -> Obj(7)
    [] key = "Node" -> Obj(4)
    [] OTHER -> Obj(6)

Keyed(keys) == [i \in 1..Len(keys) |-> Entry(keys[i], KeyTarget(keys[i]))]

BuildGraph(g) ==
  << MapNode(Keyed(g.rootKeys)),
     MapNode(<<Entry("schemas", Obj(3))>>),
     MapNode(Keyed(g.schemaKeys)),
     MapNode(<<Entry("type", Str("object")), Entry("properties", Target(g.nprops))>>),
     MapNode(<<Entry("children", Target(g.child))>>),
     MapNode(<<Entry(g.okey, Target(g.otarget))>>),
     MapNode(<<Entry("/x", Target(g.ptarget))>>),
     MapNode(<<Entry("items", Obj(8))>>),
     SeqNode(<<Entry("", Str("x")), Entry("", Obj(4))>>) >>

Graphs ==
  { g \in [rootKeys : {<<"components">>, <<"paths", "components">>, <<"components", "paths">>},
           schemaKeys : {<<"Node">>, <<"Other", "Node">>, <<"Node", "Other">>},
           nprops : {"props", "Node"},
           child : {"Node", "root", "nested", "list", "Other", "str"},
           okey : {"items", "properties"},
           otarget : {"Node", "props", "str"},
           ptarget : {"Node", "str"}] :
      /\ Len(g.rootKeys) = 1 => g.ptarget = "str"
      /\ (Len(g.schemaKeys) = 1 /\ g.child # "Other") => (g.okey = "items" /\ g.otarget = "str") }

DecycleInit ==
  /\ input \in Graphs
  /\ run = NewDecycle(BuildGraph(input), Obj(1))

DecycleNext ==
  \/ VisitLeaf
  \/ VisitOnStack
  \/ VisitNode
  \/ ReturnToVisit
  \/ ReturnFromDecycle

DecycleSpec == DecycleInit /\ [][DecycleNext]_vars

\* the call runs to completion: nothing suspends it
DecycleLive == DecycleSpec /\ WF_vars(DecycleNext)

(***************************************************************************)
(* Properties of decycleDocument.                                          *)
(***************************************************************************)
\* the nodes the call has made
OutputNodes == (run.size + 1)..Len(run.heap)

\* the nodes of the output document
RECURSIVE Reach(_, _)
Reach(heap, v) ==
  IF ~IsObj(v) THEN {}
  ELSE {v.n} \cup UNION {Reach(heap, heap[v.n].ents[i].v) : i \in 1..Len(heap[v.n].ents)}

IsRefNode(heap, v) ==
  /\ IsMapVal(heap, v) /\ v.n \in OutputNodes
  /\ Len(heap[v.n].ents) = 1 /\ heap[v.n].ents[1].k = "$ref"

\* the output value o reads as the input value n down to depth k, a
\* { $ref } of the output standing for what its pointer leads to in the
\* output document
RECURSIVE Matches(_, _, _)
Matches(o, n, k) ==
  IF k = 0 THEN TRUE
  ELSE IF ~IsObj(o) \/ ~IsObj(n) THEN o = n
  ELSE IF IsRefNode(run.heap, o)
  THEN LET t == PointerTarget(run.heap, run.result, run.heap[o.n].ents[1].v.p, 1)
       IN t.ok /\ Matches(t.v, n, k - 1)
  ELSE /\ run.heap[o.n].kind = run.heap[n.n].kind
       /\ Len(run.heap[o.n].ents) = Len(run.heap[n.n].ents)
       /\ \A i \in 1..Len(run.heap[o.n].ents) :
            /\ run.heap[o.n].ents[i].k = run.heap[n.n].ents[i].k
            /\ Matches(run.heap[o.n].ents[i].v, run.heap[n.n].ents[i].v, k - 1)

NodePointer == <<"components", "schemas", "Node">>
ChildrenPointer == <<"components", "schemas", "Node", "properties", "children">>

\* Claim C3: every $ref of the output, looked up by its JSON Pointer in the
\* output document, leads to a node, and that node is structurally
\* equivalent to the subtree of the input the $ref stands for.
EmittedRefsResolve ==
  run.status = "done" =>
    \A i \in 1..Len(run.emitted) :
      run.emitted[i].out \in Reach(run.heap, run.result) =>
        LET t == PointerTarget(run.heap, run.result, run.emitted[i].ref, 1)
        IN t.ok /\ Matches(t.v, Obj(run.emitted[i].of), MatchDepth)

\* Claim C4: when the schema at components/schemas/Node is itself the value
\* of its properties.children, the output has exactly
\* {"$ref": "#/components/schemas/Node"} at
\* components.schemas.Node.properties.children, whatever else in the
\* document refers to Node.
NodeCycleGetsNodePointer ==
  LET node == PointerTarget(run.heap, Obj(1), NodePointer, 1)
      children == PointerTarget(run.heap, Obj(1), ChildrenPointer, 1)
      out == PointerTarget(run.heap, run.result, ChildrenPointer, 1)
  IN (run.status = "done" /\ node.ok /\ IsObj(node.v) /\ children.ok /\ children.v = node.v)
       => /\ out.ok /\ IsObj(out.v)
          /\ run.heap[out.v.n] = RefNode(NodePointer)

\* the entries of the nodes the call has made that hold a node
OutputEdges ==
  {e \in UNION {{<<n, i>> : i \in 1..Len(run.heap[n].ents)} : n \in OutputNodes} :
     IsObj(run.heap[e[1]].ents[e[2]].v)}
EdgeTarget(e) == run.heap[e[1]].ents[e[2]].v.n

\* Claim C5: the output is a tree of new nodes: no mapping or sequence of
\* it is the value of two entries, none is a node of the input, and the
\* root is the value of no entry.  (Stated for every node the call has
\* made, which the nodes of the output are among.)
OutputIsTree ==
  run.status = "done" =>
    /\ IsObj(run.result) /\ run.result.n \in OutputNodes
    /\ \A e \in OutputEdges : EdgeTarget(e) \in OutputNodes /\ EdgeTarget(e) # run.result.n
    /\ \A e1, e2 \in OutputEdges : EdgeTarget(e1) = EdgeTarget(e2) => e1 = e2

\* Node closes a cycle on itself and is shared between paths and components
OutputIsTreeWitness ==
  /\ run.status = "done"
  /\ input.child = "Node" /\ input.nprops = "props"
  /\ Len(input.rootKeys) = 2 /\ input.ptarget = "Node"
  /\ Len(run.emitted) >= 2

\* calls of visit that have not returned
Depth == Len(run.frames) + (IF run.ctl.mode = "call" /\ run.status = "run" THEN 1 ELSE 0)

\* Claim C6: the call terminates on every graph, and during the traversal
\* the recursion depth never exceeds the number of nodes in the visiting
\* set plus one.
DecycleTerminates ==
  /\ [](Depth <= Cardinality(run.stack) + 1)
  /\ <>(run.status = "done")

\* visit is called on a node that is being visited, four calls deep
DecycleTerminatesWitness ==
  /\ VisitCalling /\ IsObj(run.ctl.v) /\ OnStack(run, run.ctl.v)
  /\ Cardinality(run.stack) >= 4
  /\ Depth = Cardinality(run.stack) + 1

\* Claim C25: the component pointer recorded for a node is a pointer under
\* which that very node is located in the input document.
ComponentPointerIsCanonical ==
  \A n \in DOMAIN run.componentPointers :
    LET t == PointerTarget(run.heap, Obj(1), run.componentPointers[n], 1)
    IN t.ok /\ t.v = Obj(n)

\* the nodes located at components/schemas/<name> in the input document
ComponentNodes ==
  LET schemas == PointerTarget(run.heap, Obj(1), <<"components", "schemas">>, 1)
  IN {n \in 1..run.size :
        /\ schemas.ok /\ IsObj(schemas.v)
        /\ \E i \in 1..Len(run.heap[schemas.v.n].ents) :
             run.heap[schemas.v.n].ents[i].v = Obj(n)}
\* #/components/<kind>/<name> or #/definitions/<name>
IsComponentPointer(ref) ==
  \/ Len(ref) = 3 /\ ref[1] = "components"
  \/ Len(ref) = 2 /\ ref[1] = "definitions"

\* Claim C26: the marker made for a cycle that closes on a node located at
\* components/<kind>/<name> carries a component pointer, in whatever order
\* the keys of the document are traversed.
CycleOnComponentGetsComponentPointer ==
  [][(/\ VisitCalling /\ IsObj(run.ctl.v) /\ OnStack(run, run.ctl.v)
      /\ run.ctl.v.n \in ComponentNodes)
       => IsMarker(run'.ctl.v) /\ IsComponentPointer(run'.ctl.v.p)]_vars

\* a step in which the visit of the mapping M returns: the last of its
\* children has returned and the loop ends
MappingReturns ==
  /\ VisitReturning /\ run.frames # <<>>
  /\ run.heap[run.frames[Len(run.frames)].node].kind = "map"
  /\ run'.status = "run" /\ run'.ctl.mode = "ret"
  /\ Len(run'.frames) = Len(run.frames) - 1
\* child i of the mapping M closes a cycle: it is a node being visited
ClosesCycle(M, i) ==
  IsObj(run.heap[M].ents[i].v) /\ run.heap[M].ents[i].v.n \in run.stack
\* the pointer of the marker made for node n while it is being visited
MarkerPointer(n) ==
  IF n \in DOMAIN run.componentPointers THEN run.componentPointers[n] ELSE run.pointers[n]
\* what visit has returned for child i of the frame's mapping
Processed(f, i) == IF i = f.i THEN run.ctl.v ELSE GetKey(f.copy, run.heap[f.node].ents[i].k)

\* Claim C27: for a mapping M one of whose children closes a cycle: if the
\* child is under the key `properties`, the output for M is exactly
\* {"$ref": pointer}; otherwise the child's value is {"$ref": pointer} and
\* every other key of M has its own transformed value.
BubbleReplacesMapping ==
  [][MappingReturns =>
       LET f == run.frames[Len(run.frames)]
           M == f.node
           ents == run.heap[M].ents
           out == run'.heap[run'.ctl.v.n]
       IN IF \E i \in 1..Len(ents) : ents[i].k = "properties" /\ ClosesCycle(M, i)
          THEN out = RefNode(MarkerPointer(GetKey(ents, "properties").n))
          ELSE /\ out.kind = "map"
               /\ Len(out.ents) = Len(ents)
               /\ \A i \in 1..Len(ents) :
                    /\ out.ents[i].k = ents[i].k
                    /\ IF ClosesCycle(M, i)
                       THEN /\ IsObj(out.ents[i].v)
                            /\ out.ents[i].v.n \in (run.size + 1)..Len(run'.heap)
                            /\ run'.heap[out.ents[i].v.n] = RefNode(MarkerPointer(ents[i].v.n))
                       ELSE out.ents[i].v = Processed(f, i)]_vars

\* Node, which is its own `properties`, has been replaced by a $ref as a
\* whole: its `type` is gone
BubbleReplacesMappingWitness ==
  /\ VisitReturning /\ IsObj(run.ctl.v)
  /\ input.nprops = "Node"
  /\ run.heap[run.ctl.v.n] = RefNode(NodePointer)
  /\ run.emitted # <<>> /\ run.emitted[Len(run.emitted)].of = 4
  /\ run.emitted[Len(run.emitted)].out = run.ctl.v.n

\* Claim C29: decycleDocument never modifies its input, and when it has
\* returned the visiting set is empty again.
InputUntouched ==
  /\ SubSeq(run.heap, 1, run.size) = BuildGraph(input)
  /\ run.status = "done" => run.stack = {}

\* the call has returned after a bubbling return and a plain replacement
InputUntouchedWitness ==
  /\ run.status = "done"
  /\ run.stack = {}
  /\ Len(run.emitted) >= 2
  /\ \E i \in 1..Len(run.emitted) : run.heap[run.emitted[i].of].kind = "map"
                                      /\ HasOwn(run.heap[run.emitted[i].of].ents, "properties")
  /\ SubSeq(run.heap, 1, run.size) = BuildGraph(input)

(***************************************************************************)
(* The Go DereferenceService (harvest.go): the same machine, with Go's     *)
(* url.Parse and ResolveReference, a synchronous HTTP request, errors      *)
(* returned through every caller, and maps ranged over in any order.       *)
(* asked observes, for every call of getDocument, the key together with    *)
(* the reference and the document key it was computed from.                *)
(***************************************************************************)
\* an error is returned through every caller; getDocument resets
\* r.resolving[key] on the way
GoError(m, kind) ==
  [m EXCEPT !.status = "err", !.err = kind, !.stack = <<>>, !.ctl = Idle,
            !.resolving = {}]

\* strconv.Atoi(seg): [err, n]
Atoi(seg) ==
  CASE seg = "0" -> [err |-> FALSE, n |-> 0]
    [] seg = "1" -> [err |-> FALSE, n |-> 1]
    [] seg = "2" -> [err |-> FALSE, n |-> 2]
    [] seg = "-1" -> [err |-> FALSE, n |-> -1]
    [] OTHER -> [err |-> TRUE, n |-> 0]

RECURSIVE GoPointerWalk(_, _, _, _)
GoPointerWalk(heap, current, segments, i) ==
  IF i > Len(segments) THEN [ok |-> TRUE, v |-> current]
  ELSE IF segments[i] = "" THEN GoPointerWalk(heap, current, segments, i + 1)
  ELSE LET seg == Unescape(segments[i]) IN
    IF IsMapVal(heap, current) THEN
      IF ~HasOwn(heap[current.n].ents, seg) THEN [ok |-> FALSE, v |-> Undefined]
      ELSE GoPointerWalk(heap, GetKey(heap[current.n].ents, seg), segments, i + 1)
    ELSE IF IsSeqVal(heap, current) THEN
      LET idx == Atoi(seg) IN
      IF idx.err \/ idx.n < 0 \/ idx.n >= Len(heap[current.n].ents)
      THEN [ok |-> FALSE, v |-> Undefined]
      ELSE GoPointerWalk(heap, heap[current.n].ents[idx.n + 1].v, segments, i + 1)
    ELSE [ok |-> FALSE, v |-> Undefined]

GoJsonPointerLookup(heap, doc, pointer) ==
  IF pointer = <<>> THEN [ok |-> TRUE, v |-> doc]
  ELSE GoPointerWalk(heap, doc, pointer, 1)

\* func deepCopy: a new map or slice at every level, as in the JS service
GoDeepCopy(heap, value) == deepCopy(heap, value)

\* for key, val := range typed { resolved, err := r.resolveNode(...);
\* typed[key] = resolved }; return typed   (f.ents is the order of the range)
GoContinueEntries(m, f) ==
  IF f.i > Len(f.ents) THEN [m EXCEPT !.ctl = Ret(Obj(f.id))]
  ELSE [m EXCEPT !.stack = Append(@, f),
                 !.ctl = Call(f.ents[f.i].v, f.docKey, f.base)]

\* for i, elem := range typed { ...; typed[i] = resolved }; return typed
GoContinueElems(m, f) ==
  LET j == NextObj(m.heap[f.id].ents, f.i) IN
  IF j > Len(m.heap[f.id].ents) THEN [m EXCEPT !.ctl = Ret(Obj(f.id))]
  ELSE [m EXCEPT !.stack = Append(@, [f EXCEPT !.i = j]),
                 !.ctl = Call(m.heap[f.id].ents[j].v, f.docKey, f.base)]

\* resolveNode after r.resolveRef: delete(typed, "$ref"), then merge,
\* replace or attach under "value"
GoAfterResolveRef(m, id, resolved, targetKey, targetBase) ==
  LET typed == DeleteKey(m.heap[id].ents, "$ref") IN
  IF IsMapVal(m.heap, resolved)
  THEN [m EXCEPT !.heap[id].ents = MergeEntries(typed, m.heap[resolved.n].ents, 1),
                 !.ctl = Call(Obj(id), targetKey, targetBase)]
  ELSE IF Len(typed) = 0
  THEN [m EXCEPT !.heap[id].ents = typed, !.ctl = Ret(resolved)]
  ELSE [m EXCEPT !.heap[id].ents = SetKey(typed, "value", resolved),
                 !.ctl = Call(Obj(id), targetKey, targetBase)]

\* resolveRef: copyValue := deepCopy(value); r.resolveNode(ctx, copyValue,
\* targetKey, targetBase); a copy of a node made while a copy of the same
\* node is being resolved in the same store starts a recursion without end
GoInclude(m, id, value, targetKey, targetBase) ==
  IF ~IsObj(value) THEN GoAfterResolveRef(m, id, value, targetKey, targetBase)
  ELSE IF Including(m, value.n) THEN [m EXCEPT !.status = "div"]
  ELSE LET c == GoDeepCopy(m.heap, value) IN
       [m EXCEPT !.heap = c.heap,
                 !.stack = Append(@, [Frame("resolveRef", id, targetKey, targetBase)
                                        EXCEPT !.src = value.n, !.known = DOMAIN m.docs]),
                 !.ctl = Call(c.v, targetKey, targetBase)]

\* resolveRef after r.getDocument
GoLookupFragment(m, id, doc, fragment, targetKey, targetBase) ==
  LET found == GoJsonPointerLookup(m.heap, doc, fragment) IN
  IF ~found.ok THEN GoError(m, "PointerNotFound")
  ELSE GoInclude(m, id, found.v, targetKey, targetBase)

\* client.Do(req) is started; the call waits for the response (cause: the
\* entry of asked the request is made for)
GoRequest(m, url) ==
  [m EXCEPT !.fetches = Append(@, [url |-> url, by |-> "client.Do",
                                   cause |-> Len(m.asked)]),
            !.status = "wait"]

\* getDocument up to client.Do; a URL without scheme is refused by the
\* client before anything is sent
GoGetDocument(m, id, fragment, key, u, targetBase) ==
  IF key \in DOMAIN m.docs
  THEN GoLookupFragment(m, id, Obj(m.docs[key]), fragment, key, targetBase)
  ELSE IF key = ROOT_KEY THEN GoError(m, "RootNotLoaded")
  ELSE IF u = NoUrl THEN GoError(m, "NoBaseUrl")
  ELSE IF u.origin = "" THEN GoError(m, "RequestFailed")
  ELSE GoRequest([m EXCEPT !.stack = Append(@, [Frame("getDocument", id, key, targetBase)
                                                  EXCEPT !.frag = fragment])], u)

\* url.Parse(ref), then baseURL.ResolveReference(parsed) for a reference that
\* is not absolute when there is a base: a reference of a fragment only
\* resolves to the base itself
GoTargetUrl(ref, baseURL) ==
  LET f == RefTable[ref] IN
  CASE f.form = "abs" -> Url(f.origin, f.file)
    [] f.form = "frag" -> baseURL
    [] OTHER -> Url(baseURL.origin, f.file)

\* resolveRef up to getDocument
GoResolveRef(m, id, ref, docKey, baseURL) ==
  LET targetURL == GoTargetUrl(ref, baseURL)
      fragment == RefTable[ref].hash
      targetKey == IF targetURL # NoUrl THEN targetURL ELSE docKey
      targetBase == IF targetKey = docKey THEN baseURL ELSE targetURL
  IN IF RefTable[ref].form = "bad" THEN GoError(m, "InvalidReference")
     ELSE GoGetDocument([m EXCEPT !.asked = Append(@, [key |-> targetKey, ref |-> ref,
                                                       docKey |-> docKey])],
                        id, fragment, targetKey, targetURL, targetBase)

\* if refVal, ok := typed["$ref"]; ok { if refStr, ok := refVal.(string);
\* ok && refStr != "" {
GoHasRef(ents) == IsStr(GetKey(ents, "$ref")) /\ GetKey(ents, "$ref").s # ""

\* the orders in which a range over the map may yield the entries that hold
\* a map or a slice (resolveNode returns every other value as it is)
RangeOrders(ents) ==
  LET objs == SelectSeq(ents, LAMBDA e : IsObj(e.v))
  IN {[i \in 1..Len(objs) |-> objs[pi[i]]] : pi \in Permutations(1..Len(objs))}

\* Dereference up to resolver.resolveNode(ctx, root, rootKey, baseURL)
GoDereference ==
  /\ run.status = "start"
  /\ LET y == LoadYaml(run.heap, input.oas) IN
     run' = IF input.oas.kind = "blank" THEN GoError(run, "EmptyOAS")
            ELSE IF ~y.ok THEN GoError(run, "ParseFailed")
            ELSE IF ~IsMapVal(y.heap, y.v) THEN GoError(run, "RootNotObject")
            ELSE [setDocument([run EXCEPT !.heap = y.heap], ROOT_KEY, y.v.n)
                    EXCEPT !.status = "run", !.source = input.source,
                           !.ctl = Call(y.v, ROOT_KEY, input.source)]
  /\ UNCHANGED input

\* case []any
GoResolveNodeSeq ==
  /\ Calling /\ IsSeqVal(run.heap, run.ctl.v)
  /\ run' = GoContinueElems(run, [Frame("elems", run.ctl.v.n, run.ctl.docKey, run.ctl.base)
                                    EXCEPT !.i = 1])
  /\ UNCHANGED input

\* case map[string]any with a "$ref"
GoResolveNodeRef ==
  /\ Calling /\ IsMapVal(run.heap, run.ctl.v) /\ GoHasRef(run.heap[run.ctl.v.n].ents)
  /\ run' = GoResolveRef(run, run.ctl.v.n, Trim(GetKey(run.heap[run.ctl.v.n].ents, "$ref").s),
                         run.ctl.docKey, run.ctl.base)
  /\ UNCHANGED input

\* case map[string]any without: the range over the map
GoResolveNodeMap ==
  /\ Calling /\ IsMapVal(run.heap, run.ctl.v) /\ ~GoHasRef(run.heap[run.ctl.v.n].ents)
  /\ \E order \in RangeOrders(run.heap[run.ctl.v.n].ents) :
       run' = GoContinueEntries(run, [Frame("entries", run.ctl.v.n, run.ctl.docKey,
                                            run.ctl.base)
                                        EXCEPT !.ents = order, !.i = 1])
  /\ UNCHANGED input

\* typed[key] = resolved, next entry of the range
GoReturnToEntries ==
  /\ Returning /\ run.stack # <<>> /\ Top(run).op = "entries"
  /\ LET f == Top(run)
         m == [Popped(run) EXCEPT !.heap[f.id].ents = SetKey(@, f.ents[f.i].k, run.ctl.v)]
     IN run' = GoContinueEntries(m, [f EXCEPT !.i = @ + 1])
  /\ UNCHANGED input

\* typed[i] = resolved, next element
GoReturnToElems ==
  /\ Returning /\ run.stack # <<>> /\ Top(run).op = "elems"
  /\ LET f == Top(run)
         m == [Popped(run) EXCEPT !.heap[f.id].ents[f.i].v = run.ctl.v]
     IN run' = GoContinueElems(m, [f EXCEPT !.i = @ + 1])
  /\ UNCHANGED input

\* resolveRef returns resolved, targetKey, targetBase
GoReturnToResolveRef ==
  /\ Returning /\ run.stack # <<>> /\ Top(run).op = "resolveRef"
  /\ LET f == Top(run)
     IN run' = GoAfterResolveRef(Popped(run), f.id, run.ctl.v, f.docKey, f.base)
  /\ UNCHANGED input

\* getDocument: r.resolving[key] = false; return remoteMap
GoReturnToGetDocument ==
  /\ Returning /\ run.stack # <<>> /\ Top(run).op = "getDocument"
  /\ LET f == Top(run)
         m == [Popped(run) EXCEPT !.resolving = @ \ {f.docKey}]
     IN run' = GoLookupFragment(m, f.id, Obj(m.docs[f.docKey]), f.frag, f.docKey, f.base)
  /\ UNCHANGED input

\* Dereference after resolver.resolveNode
GoReturnToDereference ==
  /\ Returning /\ run.stack = <<>>
  /\ run' = IF IsMapVal(run.heap, run.ctl.v)
            THEN [run EXCEPT !.status = "done", !.result = run.ctl.v, !.ctl = Idle]
            ELSE GoError(run, "UnexpectedStructure")
  /\ UNCHANGED input

\* a 2xx response: getDocument from io.ReadAll to r.resolveNode(ctx,
\* remoteMap, key, u); the request and the read of the body end with an
\* error once the context is cancelled
GoResponseOk ==
  /\ run.status = "wait"
  /\ run.ctx = "live"
  /\ LET f == Top(run)
         y == LoadYaml(run.heap, input.world[Pending.url])
     IN run' = IF ~y.ok THEN GoError(run, "ParseFailed")
               ELSE IF ~IsMapVal(y.heap, y.v) THEN GoError(run, "NotAnObject")
               ELSE [setDocument([run EXCEPT !.heap = y.heap,
                                             !.resolving = @ \cup {f.docKey}],
                                 f.docKey, y.v.n)
                       EXCEPT !.status = "run", !.ctl = Call(y.v, f.docKey, Pending.url)]
  /\ UNCHANGED input

\* resp.StatusCode < 200 || resp.StatusCode >= 300
GoResponseStatus ==
  /\ run.status = "wait"
  /\ run.ctx = "live"
  /\ run' = GoError(run, "Status")
  /\ UNCHANGED input

\* client.Do returns an error: the network, or the context of the request
GoRequestFails ==
  /\ run.status = "wait"
  /\ run' = GoError(run, "RequestFailed")
  /\ UNCHANGED input

\* the caller cancels ctx (or its deadline passes) while the call runs
GoCancel ==
  /\ run.status \in {"start", "run", "wait"}
  /\ run.ctx = "live"
  /\ run' = [run EXCEPT !.ctx = "cancelled"]
  /\ UNCHANGED input

\* Dereference(ctx, oas, source): the document, the source URI ("" is NoUrl)
\* and the documents on the network
GoCall(oas, source, world) == [oas |-> oas, source |-> source, world |-> world]

GoInputs ==
  {GoCall(root, source, World(root, common, other)) :
     root \in RootTexts \cup {Text("blank", <<>>), Text("garbage", <<>>), Text("list", <<>>)},
     source \in {NoUrl, RootUrl}, common \in CommonTexts, other \in OtherTexts}

\* newRefResolver(s.client), and the ctx the call is given
GoMachine ==
  [f \in DOMAIN NewMachine \cup {"ctx"} |-> IF f = "ctx" THEN "live" ELSE NewMachine[f]]

GoInit ==
  /\ input \in GoInputs
  /\ run = GoMachine

GoNext ==
  \/ GoDereference
  \/ GoResolveNodeSeq
  \/ GoResolveNodeRef
  \/ GoResolveNodeMap
  \/ GoReturnToEntries
  \/ GoReturnToElems
  \/ GoReturnToResolveRef
  \/ GoReturnToGetDocument
  \/ GoReturnToDereference
  \/ GoResponseOk
  \/ GoResponseStatus
  \/ GoRequestFails
  \/ GoCancel

GoSpec == GoInit /\ [][GoNext]_vars

(***************************************************************************)
(* Properties of the Go dereference call.                                  *)
(***************************************************************************)
\* a reference of the root document that starts with "#"
RootInternal(a) == a.docKey = ROOT_KEY /\ RefTable[a.ref].form = "frag"

\* Claim C8: a root-internal reference is resolved against the document
\* registered under the root key and causes no HTTP request, with and
\* without a source URI.
RootRefsStayLocal ==
  /\ \A i \in 1..Len(run.asked) :
       RootInternal(run.asked[i]) => run.asked[i].key = ROOT_KEY
  /\ \A j \in 1..Len(run.fetches) :
       ~RootInternal(run.asked[run.fetches[j].cause])

\* Claim C12: once the context has been cancelled before the call has
\* returned, the call returns an error and no document: it never completes
\* with a result.
CancelledCallFails ==
  run.ctx = "cancelled" => run.status # "done" /\ run.result = Undefined

(***************************************************************************)
(* The dialect converter (convertSpec and what it calls).  A document is   *)
(* a parsed JSON/YAML value on the heap and is rewritten in place; an      *)
(* array is a sequence node, `true`, `false` and `null` are values of      *)
(* their own.                                                              *)
(***************************************************************************)
True == [t |-> "b", s |-> "true", n |-> 1, p |-> <<>>]
False == [t |-> "b", s |-> "false", n |-> 0, p |-> <<>>]
Null == [t |-> "z", s |-> "", n |-> 0, p |-> <<>>]

\* the elements of the array v
Items(heap, v) == [i \in 1..Len(heap[v.n].ents) |-> heap[v.n].ents[i].v]

\* an array literal [a, b, ...]: [heap, v]
NewArray(heap, items) ==
  [heap |-> Alloc(heap, SeqNode([i \in 1..Len(items) |-> Entry("", items[i])])),
   v |-> Obj(NewId(heap))]

\* target[key] = [a, b, ...]
SetArray(heap, target, key, items) ==
  LET a == NewArray(heap, items)
  IN [a.heap EXCEPT ![target].ents = SetKey(@, key, a.v)]

\* a merge that appends "null" whatever the array holds, for comparison
mergeTypeAppending(heap, target) ==
  LET current == GetKey(heap[target].ents, "type") IN
  IF IsSeqVal(heap, current)
  THEN SetArray(heap, target, "type", Append(Items(heap, current), Str("null")))
  ELSE IF IsStr(current) /\ current.s # ""
  THEN SetArray(heap, target, "type", <<current, Str("null")>>)
  ELSE SetArray(heap, target, "type", <<Str("null")>>)

mergeTypeWithNull(heap, target) ==
  LET current == GetKey(heap[target].ents, "type") IN
  IF IsSeqVal(heap, current)
  THEN IF \E i \in 1..Len(heap[current.n].ents) : heap[current.n].ents[i].v = Str("null")
       THEN heap
       ELSE SetArray(heap, target, "type", Append(Items(heap, current), Str("null")))
  ELSE IF IsStr(current) /\ current.s # ""
  THEN SetArray(heap, target, "type", <<current, Str("null")>>)
  ELSE SetArray(heap, target, "type", <<Str("null")>>)

\* the one element of a set of one element (an expression is evaluated once
\* when it is written as { ... : h \in {expression} })
The(S) == CHOOSE x \in S : TRUE

\* if (node.nullable === true) { mergeTypeWithNull(node); delete node.nullable; }
Convert30Node(h, target) ==
  IF h[target].kind = "seq" THEN h
  ELSE IF GetKey(h[target].ents, "nullable") = True
  THEN The({[m EXCEPT ![target].ents = DeleteKey(@, "nullable")] :
              m \in {mergeTypeWithNull(h, target)}})
  ELSE h

\* the children are converted first (node[key] = value stores back what is
\* there already), then the node itself
RECURSIVE convertSchemas30To31(_, _), Convert30Children(_, _, _)
Convert30Children(heap, kids, i) ==
  IF i > Len(kids) THEN heap
  ELSE The({Convert30Children(h, kids, i + 1) : h \in {convertSchemas30To31(heap, kids[i].v)}})

convertSchemas30To31(heap, node) ==
  IF ~IsObj(node) THEN heap
  ELSE The({Convert30Node(h, node.n) : h \in {Convert30Children(heap, heap[node.n].ents, 1)}})

\* what remains of a `type` array, and of an `enum` array
TypeFiltered(items) ==
  SelectSeq(items, LAMBDA item : item # Null /\ item # Undefined /\ item # Str("null"))
EnumFiltered(items) == SelectSeq(items, LAMBDA value : value # Null)
Holds(items, x) == \E i \in 1..Len(items) : items[i] = x

\* a normalisation that forgets the null it removes, for comparison
normalizeTypeQuiet(heap, target) ==
  LET currentType == GetKey(heap[target].ents, "type") IN
  IF ~IsSeqVal(heap, currentType) THEN heap
  ELSE LET filtered == TypeFiltered(Items(heap, currentType)) IN
       IF Len(filtered) = 0 THEN [heap EXCEPT ![target].ents = DeleteKey(@, "type")]
       ELSE IF Len(filtered) = 1
       THEN [heap EXCEPT ![target].ents = SetKey(@, "type", filtered[1])]
       ELSE SetArray(heap, target, "type", filtered)

\* a normalisation that keeps a single remaining type in its array, for
\* comparison
normalizeTypeKeepingArray(heap, target) ==
  LET currentType == GetKey(heap[target].ents, "type") IN
  IF ~IsSeqVal(heap, currentType) THEN heap
  ELSE LET items == Items(heap, currentType)
           filtered == TypeFiltered(items)
           h == IF Holds(items, Str("null"))
                THEN [heap EXCEPT ![target].ents = SetKey(@, "nullable", True)]
                ELSE heap
       IN IF Len(filtered) = 0 THEN [h EXCEPT ![target].ents = DeleteKey(@, "type")]
          ELSE SetArray(h, target, "type", filtered)

normalizeTypeArray(heap, target) ==
  LET currentType == GetKey(heap[target].ents, "type") IN
  IF ~IsSeqVal(heap, currentType) THEN heap
  ELSE LET items == Items(heap, currentType)
           filtered == TypeFiltered(items)
           hasNull == Holds(items, Str("null"))
           h == IF hasNull THEN [heap EXCEPT ![target].ents = SetKey(@, "nullable", True)]
                ELSE heap
       IN IF Len(filtered) = 0 THEN [h EXCEPT ![target].ents = DeleteKey(@, "type")]
          ELSE IF Len(filtered) = 1
          THEN [h EXCEPT ![target].ents = SetKey(@, "type", filtered[1])]
          ELSE SetArray(h, target, "type", filtered)

\* a normalisation that leaves an emptied enum in place, for comparison
normalizeEnumKeepingEmpty(heap, target) ==
  LET enumValues == GetKey(heap[target].ents, "enum") IN
  IF ~IsSeqVal(heap, enumValues) THEN heap
  ELSE LET items == Items(heap, enumValues)
           filtered == EnumFiltered(items)
           h == IF Holds(items, Null)
                THEN [heap EXCEPT ![target].ents = SetKey(@, "nullable", True)]
                ELSE heap
       IN IF Len(filtered) # Len(items) THEN SetArray(h, target, "enum", filtered) ELSE h

normalizeEnumNull(heap, target) ==
  LET enumValues == GetKey(heap[target].ents, "enum") IN
  IF ~IsSeqVal(heap, enumValues) THEN heap
  ELSE LET items == Items(heap, enumValues)
           filtered == EnumFiltered(items)
           hasNull == Holds(items, Null)
           h == IF hasNull THEN [heap EXCEPT ![target].ents = SetKey(@, "nullable", True)]
                ELSE heap
       IN IF Len(filtered) = 0 THEN [h EXCEPT ![target].ents = DeleteKey(@, "enum")]
          ELSE IF Len(filtered) # Len(items) THEN SetArray(h, target, "enum", filtered)
          ELSE h

\* if (Object.hasOwn(node, "const")) { if (!Object.hasOwn(node, "enum"))
\* node.enum = [node.const]; delete node.const; }
ConstToEnum(heap, target) ==
  LET ents == heap[target].ents IN
  IF ~HasOwn(ents, "const") THEN heap
  ELSE LET h == IF HasOwn(ents, "enum") THEN heap
                ELSE SetArray(heap, target, "enum", <<GetKey(ents, "const")>>)
       IN [h EXCEPT ![target].ents = DeleteKey(@, "const")]

\* const, then normalizeTypeArray(node); normalizeEnumNull(node);
Convert31Node(h, target) ==
  IF h[target].kind = "seq" THEN h
  ELSE The({normalizeEnumNull(h2, target) :
              h2 \in {normalizeTypeArray(h1, target) : h1 \in {ConstToEnum(h, target)}}})

RECURSIVE convertSchemas31To30(_, _), Convert31Children(_, _, _)
\* a conversion that leaves the children of a node as they are, for
\* comparison
Convert31ChildrenSkipped(heap, kids, i) == heap

Convert31Children(heap, kids, i) ==
  IF i > Len(kids) THEN heap
  ELSE The({Convert31Children(h, kids, i + 1) : h \in {convertSchemas31To30(heap, kids[i].v)}})

convertSchemas31To30(heap, node) ==
  IF ~IsObj(node) THEN heap
  ELSE The({Convert31Node(h, node.n) : h \in {Convert31Children(heap, heap[node.n].ents, 1)}})

\* rawVersion.startsWith("3.0") / startsWith("3.1") on the strings of the
\* model: the prefix of the two that the string begins with, "" if neither
VersionPrefix(rawVersion) ==
  CASE rawVersion \in {"3.0", "3.0.0", "3.0.3"} -> "3.0"
    [] rawVersion \in {"3.1", "3.1.0", "3.10.0"} -> "3.1"
    [] OTHER -> ""

\* the state of a conversion: the document (root) on its heap, the heap
\* before the last application (before) and before the first (orig), the
\* dialect the last application has converted from, and the error thrown
NewConversion(heap, root) ==
  [heap |-> heap, root |-> root, before |-> heap, orig |-> heap,
   status |-> "ready", err |-> "", from |-> "", passes |-> 0]

\* spec[to] = spec[from] unless spec has `to`; delete spec[from]
MoveKey(ents, from, to) ==
  IF ~HasOwn(ents, from) THEN ents
  ELSE DeleteKey(IF HasOwn(ents, to) THEN ents ELSE SetKey(ents, to, GetKey(ents, from)),
                 from)

JSON_SCHEMA_DIALECT_BASE == "https://spec.openapis.org/oas/3.1/dialect/base"

\* the two rewrites of convertSpec, from the call of convertSchemas... to
\* `spec.openapi = targetVersion`
RootKeys30To31(ents) ==
  LET e1 == IF HasOwn(ents, "jsonSchemaDialect") THEN ents
            ELSE SetKey(ents, "jsonSchemaDialect", Str(JSON_SCHEMA_DIALECT_BASE))
  IN SetKey(MoveKey(e1, "x-webhooks", "webhooks"), "openapi", Str("3.1.0"))

RootKeys31To30(ents) ==
  SetKey(MoveKey(DeleteKey(ents, "jsonSchemaDialect"), "webhooks", "x-webhooks"),
         "openapi", Str("3.0.3"))

Rewrite30To31(heap, root) ==
  The({[h EXCEPT ![root].ents = RootKeys30To31(@)] :
         h \in {convertSchemas30To31(heap, Obj(root))}})

Rewrite31To30(heap, root) ==
  The({[h EXCEPT ![root].ents = RootKeys31To30(@)] :
         h \in {convertSchemas31To30(heap, Obj(root))}})

\* String(openapiValue).trim(), "" for undefined and null
RawVersion(openapiValue) ==
  IF openapiValue = Undefined \/ openapiValue = Null THEN "" ELSE Trim(String(openapiValue))

\* a converter that looks at the version after it has rewritten the
\* schemas, for comparison
convertSpecCheckingLate(c) ==
  LET rawVersion == RawVersion(GetKey(c.heap[c.root].ents, "openapi"))
      h == Rewrite31To30(c.heap, c.root)
  IN IF rawVersion = "" THEN [c EXCEPT !.heap = h, !.status = "err", !.err = "VersionMissing"]
     ELSE IF VersionPrefix(rawVersion) = "3.0"
     THEN [c EXCEPT !.heap = Rewrite30To31(c.heap, c.root), !.status = "ok", !.from = "3.0"]
     ELSE IF VersionPrefix(rawVersion) = "3.1"
     THEN [c EXCEPT !.heap = Rewrite31To30(c.heap, c.root), !.status = "ok", !.from = "3.1"]
     ELSE [c EXCEPT !.heap = h, !.status = "err", !.err = "UnsupportedVersion"]

convertSpec(c) ==
  LET rawVersion == RawVersion(GetKey(c.heap[c.root].ents, "openapi")) IN
  IF rawVersion = "" THEN [c EXCEPT !.status = "err", !.err = "VersionMissing"]
  ELSE IF VersionPrefix(rawVersion) = "3.0"
  THEN [c EXCEPT !.heap = Rewrite30To31(c.heap, c.root), !.status = "ok", !.from = "3.0"]
  ELSE IF VersionPrefix(rawVersion) = "3.1"
  THEN [c EXCEPT !.heap = Rewrite31To30(c.heap, c.root), !.status = "ok", !.from = "3.1"]
  ELSE [c EXCEPT !.status = "err", !.err = "UnsupportedVersion"]

(***************************************************************************)
(* The documents handed to the converter: a root with the `openapi` field, *)
(* webhooks, and a schema with one schema below it (`items`).  A field of  *)
(* a schema is absent, a scalar or an array.                               *)
(***************************************************************************)
Absent == [has |-> FALSE, arr |-> FALSE, items |-> <<>>]
Scalar(v) == [has |-> TRUE, arr |-> FALSE, items |-> <<v>>]
Array(items) == [has |-> TRUE, arr |-> TRUE, items |-> items]
Form(type, nullable, enum, const) ==
  [some |-> TRUE, type |-> type, nullable |-> nullable, enum |-> enum, const |-> const]
NoForm == [some |-> FALSE, type |-> Absent, nullable |-> Absent, enum |-> Absent,
           const |-> Absent]

\* an item that is itself an array of strings
List(strings) == [t |-> "l", s |-> "", n |-> 0, p |-> strings]

\* the items of an array, an item that is an array allocated first:
\* [heap, items]
RECURSIVE BuildItems(_, _, _, _)
BuildItems(heap, items, i, acc) ==
  IF i > Len(items) THEN [heap |-> heap, items |-> acc]
  ELSE IF items[i].t = "l"
  THEN \* the inner array
       BuildItems(Alloc(heap, SeqNode([j \in 1..Len(items[i].p) |->
                                         Entry("", Str(items[i].p[j]))])),
                  items, i + 1, Append(acc, Obj(NewId(heap))))
  ELSE BuildItems(heap, items, i + 1, Append(acc, items[i]))

\* ents with the field under key: [heap, ents]
BuildField(b, key, f) ==
  IF ~f.has THEN b
  ELSE IF ~f.arr THEN [heap |-> b.heap, ents |-> Append(b.ents, Entry(key, f.items[1]))]
  ELSE The({[heap |-> a.heap, ents |-> Append(b.ents, Entry(key, a.v))] :
              a \in {NewArray(c.heap, c.items) : c \in {BuildItems(b.heap, f.items, 1, <<>>)}}})

\* the schema of a form, with child under `items` if there is one: [heap, v]
BuildSchema(heap, form, child) ==
  The({[heap |-> Alloc(b4.heap, MapNode(IF child = Undefined THEN b4.ents
                                        ELSE Append(b4.ents, Entry("items", child)))),
        v |-> Obj(NewId(b4.heap))] :
         b4 \in {BuildField(b3, "const", form.const) :
           b3 \in {BuildField(b2, "enum", form.enum) :
             b2 \in {BuildField(b1, "nullable", form.nullable) :
               b1 \in {BuildField([heap |-> heap, ents |-> <<>>], "type", form.type)}}}}})

NullableString == Form(Scalar(Str("string")), Scalar(True), Absent, Absent)

\* a schema if there is to be one: [heap, v]
BuildIf(cond, heap, form, child) ==
  IF cond THEN BuildSchema(heap, form, child) ELSE [heap |-> heap, v |-> Undefined]

\* the keys of the root
RootEntries(d, x, w, t) ==
  (IF d.openapi.has THEN <<Entry("openapi", d.openapi.items[1])>> ELSE <<>>)
  \o (IF x = Undefined THEN <<>> ELSE <<Entry("x-webhooks", x)>>)
  \o (IF w = Undefined THEN <<>> ELSE <<Entry("webhooks", w)>>)
  \o <<Entry("schema", t)>>

\* JSON.parse / jsYaml.load of the document d: [heap, v]
BuildDocument(d) ==
  The(UNION UNION UNION
    {{{{[heap |-> Alloc(w.heap, MapNode(RootEntries(d, x.v, w.v, t.v))),
         v |-> Obj(NewId(w.heap))] :
          w \in {BuildIf(d.hooks \in {"plain", "both"}, x.heap, NullableString, Undefined)}} :
         x \in {BuildIf(d.hooks \in {"x", "both"}, t.heap, NullableString, Undefined)}} :
        t \in {BuildSchema(c.heap, d.top, c.v)}} :
       c \in {BuildIf(d.child.some, <<>>, d.child, Undefined)}})

Versions ==
  { Absent, Scalar(Null), Scalar(Str("")), Scalar(Str(" ")), Scalar(Str("3.0.3")),
    Scalar(Str("3.1.0")), Scalar(Str(" 3.1.0 ")), Scalar(Str("2.0")), Scalar(Num(3)),
    Scalar(Str("3.10.0")) }

TopForms ==
  { NullableString,
    Form(Absent, Scalar(True), Absent, Absent),
    Form(Scalar(Str("")), Scalar(True), Absent, Absent),
    Form(Scalar(Num(3)), Scalar(True), Absent, Absent),
    Form(Array(<<Str("string")>>), Scalar(True), Absent, Absent),
    Form(Array(<<Str("string"), Str("null")>>), Scalar(True), Absent, Absent),
    Form(Scalar(Str("string")), Absent, Absent, Absent),
    Form(Scalar(Str("string")), Scalar(False), Absent, Absent),
    Form(Scalar(Str("string")), Scalar(True), Array(<<Str("a"), Null>>), Absent),
    Form(Absent, Absent, Array(<<Num(1), Num(2), Null>>), Absent),
    Form(Absent, Absent, Array(<<Null>>), Absent),
    Form(Absent, Absent, Array(<<Num(1), Num(2)>>), Absent),
    Form(Absent, Absent, Array(<<>>), Absent),
    Form(Absent, Scalar(False), Array(<<Null, Num(2), Null, Num(1)>>), Absent),
    Form(Array(<<Str("string"), Str("null")>>), Absent, Absent, Absent),
    Form(Array(<<Str("null")>>), Absent, Absent, Absent),
    Form(Array(<<Str("string"), Str("integer")>>), Absent, Absent, Absent),
    Form(Array(<<Str("null"), Str("string"), Str("null"), Str("integer")>>),
         Absent, Absent, Absent),
    Form(Array(<<Str("string"), Null>>), Absent, Absent, Absent),
    Form(Array(<<List(<<"string", "null">>)>>), Absent, Absent, Absent),
    Form(Array(<<Str("string"), Str("null")>>), Absent, Array(<<Num(1), Num(2)>>), Absent),
    Form(Array(<<Str("string")>>), Scalar(True), Array(<<Num(1), Null>>), Absent),
    Form(Absent, Absent, Absent, Scalar(Num(1))),
    Form(Absent, Absent, Absent, Scalar(Null)),
    Form(Absent, Absent, Array(<<Num(2), Null>>), Scalar(Num(1))) }

ChildForms ==
  { NoForm,
    NullableString,
    Form(Absent, Absent, Array(<<Num(1), Null>>), Absent),
    Form(Array(<<Str("integer"), Str("null")>>), Absent, Absent, Absent) }

Documents ==
  {[openapi |-> v, hooks |-> h, top |-> t, child |-> c] :
     v \in Versions, h \in {"none", "x", "plain", "both"}, t \in TopForms, c \in ChildForms}

\* convertSpec(spec), applied to the document and then to its result
ApplyConvertSpec ==
  /\ run.status \in {"ready", "ok"}
  /\ run.passes < 2
  /\ run' = convertSpec([run EXCEPT !.before = run.heap, !.passes = @ + 1])
  /\ UNCHANGED input

ConverterInit ==
  /\ input \in Documents
  /\ \E d \in {BuildDocument(input)} : run = NewConversion(d.heap, d.v.n)

ConverterSpec == ConverterInit /\ [][ApplyConvertSpec]_vars

(***************************************************************************)
(* Properties of the converter.  A node keeps its identity through a       *)
(* rewrite, so a node of the result is compared with the same node of the  *)
(* document before.                                                        *)
(***************************************************************************)
\* the mappings of the document
MapNodes(heap, root) == {n \in Closure(heap, {root}) : heap[n].kind = "map"}
\* the nodes carrying `nullable: true`
NullableNodes(heap, root) ==
  {n \in MapNodes(heap, root) : GetKey(heap[n].ents, "nullable") = True}
\* the value of a key of node n, and the elements of an array-valued key
Field(heap, n, key) == GetKey(heap[n].ents, key)
IsArrayField(heap, n, key) == IsSeqVal(heap, Field(heap, n, key))
FieldItems(heap, n, key) == Items(heap, Field(heap, n, key))
\* a sequence without the string "null", without null, without either
WithoutNullString(items) == SelectSeq(items, LAMBDA x : x # Str("null"))
WithoutNull(items) == SelectSeq(items, LAMBDA x : x # Null)
WithoutNullAndString(items) == SelectSeq(items, LAMBDA x : x # Str("null") /\ x # Null)

\* the application that has just ended has rewritten from the dialect
Converted(dialect) == run.status = "ok" /\ run.passes >= 1 /\ run.from = dialect

\* what the claim says of `type` after 3.0 -> 3.1 when it was an array or
\* absent, and of `nullable`
MergedArrayOrAbsent(n) ==
  /\ ~HasOwn(run.heap[n].ents, "nullable")
  /\ IsArrayField(run.heap, n, "type")
  /\ ~HasOwn(run.before[n].ents, "type") => FieldItems(run.heap, n, "type") = <<Str("null")>>
  /\ IsArrayField(run.before, n, "type") =>
       FieldItems(run.heap, n, "type") =
         IF Holds(FieldItems(run.before, n, "type"), Str("null"))
         THEN FieldItems(run.before, n, "type")
         ELSE Append(FieldItems(run.before, n, "type"), Str("null"))

\* Claim C14 as stated: in the 3.0 to 3.1 direction, for every node with
\* `nullable: true`, a string type s becomes [s, "null"], an absent type
\* becomes ["null"], an array lacking "null" gets "null" appended, an array
\* containing it is unchanged, and `nullable` is deleted.
NullableBecomesNullType ==
  Converted("3.0") =>
    \A n \in NullableNodes(run.before, run.root) :
      /\ MergedArrayOrAbsent(n)
      /\ IsStr(Field(run.before, n, "type")) =>
           FieldItems(run.heap, n, "type") = <<Field(run.before, n, "type"), Str("null")>>

\* Claim C14, amended: the same, where a string type s becomes [s, "null"]
\* when s is not empty and ["null"] when s is the empty string.
NullableBecomesNullTypeAmended ==
  Converted("3.0") =>
    \A n \in NullableNodes(run.before, run.root) :
      /\ MergedArrayOrAbsent(n)
      /\ IsStr(Field(run.before, n, "type")) =>
           FieldItems(run.heap, n, "type") =
             IF Field(run.before, n, "type").s # ""
             THEN <<Field(run.before, n, "type"), Str("null")>>
             ELSE <<Str("null")>>

\* {type: "string", nullable: true} has become {type: ["string", "null"]}
NullableBecomesNullTypeWitness ==
  /\ Converted("3.0")
  /\ \E n \in NullableNodes(run.before, run.root) :
       /\ Field(run.before, n, "type") = Str("string")
       /\ FieldItems(run.heap, n, "type") = <<Str("string"), Str("null")>>
       /\ ~HasOwn(run.heap[n].ents, "nullable")

\* the nodes that have an array under key before the application
ArrayNodes(key) ==
  {n \in MapNodes(run.before, run.root) : IsArrayField(run.before, n, key)}
\* the `enum` the node has when normalizeEnumNull looks at it holds a null:
\* its own, or the one made of its `const`
EnumHoldsNull(n) ==
  IF HasOwn(run.before[n].ents, "enum")
  THEN IsArrayField(run.before, n, "enum") /\ Holds(FieldItems(run.before, n, "enum"), Null)
  ELSE HasOwn(run.before[n].ents, "const") /\ Field(run.before, n, "const") = Null
\* its `type` array holds the string "null"
TypeHoldsNull(n) ==
  IsArrayField(run.before, n, "type") /\ Holds(FieldItems(run.before, n, "type"), Str("null"))
\* the key has, after the application, the very array it had before
Untouched(n, key) ==
  /\ Field(run.heap, n, key) = Field(run.before, n, key)
  /\ FieldItems(run.heap, n, key) = FieldItems(run.before, n, key)

\* what the claim says of a node whose `enum` array was values, where
\* elsewhere tells that another rule may set `nullable` and emptied that
\* an enum that had no entry is deleted as well
EnumReduced(n, values, elsewhere, emptied) ==
  LET remaining == WithoutNull(values)
  IN /\ Holds(values, Null) => Field(run.heap, n, "nullable") = True
     /\ ~Holds(values, Null) /\ ~elsewhere =>
          Field(run.heap, n, "nullable") = Field(run.before, n, "nullable")
     /\ remaining = <<>> /\ (Holds(values, Null) \/ emptied) =>
          ~HasOwn(run.heap[n].ents, "enum")
     /\ remaining # <<>> =>
          /\ IsArrayField(run.heap, n, "enum")
          /\ FieldItems(run.heap, n, "enum") = remaining
     /\ ~Holds(values, Null) /\ (remaining # <<>> \/ ~emptied) => Untouched(n, "enum")

\* Claim C15 as stated: in the 3.1 to 3.0 direction, for every node whose
\* `enum` is an array, the null entries are removed and `nullable: true`
\* is set iff one was removed, `enum` is deleted when no entry remains,
\* the remaining entries keep their order, and an enum without null
\* entries is left untouched.
EnumNullsStripped ==
  Converted("3.1") =>
    \A n \in ArrayNodes("enum") :
      EnumReduced(n, FieldItems(run.before, n, "enum"), FALSE, FALSE)

\* Claim C15, amended: the same, where `nullable: true` may also be set
\* by the rule for an array `type` that holds "null", and an enum that
\* has no entry at all is deleted too: the enum left untouched is the one
\* that has entries and no null among them.
EnumNullsStrippedAmended ==
  Converted("3.1") =>
    \A n \in ArrayNodes("enum") :
      EnumReduced(n, FieldItems(run.before, n, "enum"), TypeHoldsNull(n), TRUE)

\* {enum: [1, 2, null]} has become {enum: [1, 2], nullable: true}
EnumNullsStrippedWitness ==
  /\ Converted("3.1")
  /\ \E n \in ArrayNodes("enum") :
       /\ FieldItems(run.before, n, "enum") = <<Num(1), Num(2), Null>>
       /\ FieldItems(run.heap, n, "enum") = <<Num(1), Num(2)>>
       /\ Field(run.heap, n, "nullable") = True

\* what the claim says of `nullable` and of `type` after 3.1 -> 3.0, the
\* array type having been reduced to remaining, where elsewhere tells
\* that another rule may set `nullable`
TypeArrayReduced(n, remaining, elsewhere) ==
  /\ TypeHoldsNull(n) => Field(run.heap, n, "nullable") = True
  /\ ~TypeHoldsNull(n) /\ ~elsewhere =>
       Field(run.heap, n, "nullable") = Field(run.before, n, "nullable")
  /\ Len(remaining) = 0 => ~HasOwn(run.heap[n].ents, "type")
  /\ Len(remaining) = 1 => Field(run.heap, n, "type") = remaining[1]
  /\ Len(remaining) > 1 =>
       /\ IsArrayField(run.heap, n, "type")
       /\ FieldItems(run.heap, n, "type") = remaining

\* Claim C16 as stated: in the 3.1 to 3.0 direction, for every node whose
\* `type` is an array, every "null" entry is removed and `nullable: true`
\* is set iff one was removed; `type` is deleted if nothing remains, the
\* remaining element if one remains, else the array of the remaining
\* elements in their order.
TypeArrayNormalized ==
  Converted("3.1") =>
    \A n \in ArrayNodes("type") :
      TypeArrayReduced(n, WithoutNullString(FieldItems(run.before, n, "type")), FALSE)

\* Claim C16, amended: the same, where the entries removed are the "null"
\* strings and the null values (a null value sets no `nullable`), and
\* `nullable: true` may also be set by the rule for an `enum` or `const`
\* that holds null.
TypeArrayNormalizedAmended ==
  Converted("3.1") =>
    \A n \in ArrayNodes("type") :
      TypeArrayReduced(n, WithoutNullAndString(FieldItems(run.before, n, "type")),
                       EnumHoldsNull(n))

\* {type: ["null", "string", "null", "integer"]} has become
\* {type: ["string", "integer"], nullable: true}
TypeArrayNormalizedWitness ==
  /\ Converted("3.1")
  /\ \E n \in ArrayNodes("type") :
       /\ Len(FieldItems(run.before, n, "type")) = 4
       /\ FieldItems(run.heap, n, "type") = <<Str("string"), Str("integer")>>
       /\ Field(run.heap, n, "nullable") = True

\* the original document is in the scope of the round trip: it uses
\* `nullable` and has no `const` and no array-valued `type`
UsesOnlyNullable ==
  LET nodes == MapNodes(run.orig, run.root)
  IN /\ \E n \in nodes : HasOwn(run.orig[n].ents, "nullable")
     /\ \A n \in nodes : /\ ~HasOwn(run.orig[n].ents, "const")
                         /\ ~IsArrayField(run.orig, n, "type")

\* no enum of the original holds null on a node without `nullable: true`,
\* and the original has no top-level `webhooks`
NoNullEnumNoWebhooks ==
  /\ \A n \in MapNodes(run.orig, run.root) :
       IsArrayField(run.orig, n, "enum") /\ Holds(FieldItems(run.orig, n, "enum"), Null)
         => Field(run.orig, n, "nullable") = True
  /\ ~HasOwn(run.orig[run.root].ents, "webhooks")

\* convertSpec has turned the 3.0 original into 3.1 and that into 3.0
RoundTripDone == run.passes = 2 /\ Converted("3.1")

GivenVersion == GetKey(run.before[run.root].ents, "openapi")
\* it is absent, null or blank
VersionIsMissing == GivenVersion \in {Undefined, Null, Str(""), Str(" ")}
\* its text (surrounding blanks aside) begins with 3.0 or 3.1
VersionIsSupported ==
  GivenVersion \in {Str("3.0.3"), Str("3.1.0"), Str(" 3.1.0 "), Str("3.10.0")}
\* the application has thrown the error and changed nothing
RejectedWith(err) ==
  /\ run.status = "err"
  /\ run.err = err
  /\ run.heap = run.before

\* Claim C17: convertSpec fails with the version-field-missing error when
\* `openapi` is absent, null or blank, and with the unsupported-version
\* error when its value does not begin with 3.0 or 3.1; in both cases the
\* document passed in is left unchanged.
BadVersionRejectedUnchanged ==
  run.passes >= 1 =>
    /\ VersionIsMissing => RejectedWith("VersionMissing")
    /\ ~VersionIsMissing /\ ~VersionIsSupported => RejectedWith("UnsupportedVersion")

\* openapi "2.0" on a document with a nullable schema: rejected, and the
\* schema still has its `nullable`
BadVersionRejectedUnchangedWitness ==
  /\ run.passes = 1
  /\ GivenVersion = Str("2.0")
  /\ RejectedWith("UnsupportedVersion")
  /\ NullableNodes(run.heap, run.root) # {}

\* the mappings of the document that are not in the normal form of 3.0:
\* a `const` key, a `type` array holding "null", an `enum` array holding null
NotNormal30(heap, root) ==
  {n \in MapNodes(heap, root) :
     \/ HasOwn(heap[n].ents, "const")
     \/ IsArrayField(heap, n, "type") /\ Holds(FieldItems(heap, n, "type"), Str("null"))
     \/ IsArrayField(heap, n, "enum") /\ Holds(FieldItems(heap, n, "enum"), Null)}

\* after 3.0 to 3.1 no mapping has `nullable: true`; after 3.1 to 3.0 no
\* mapping is out of the normal form of 3.0 and the root has no
\* `jsonSchemaDialect` and no `webhooks`
NormalForm ==
  /\ Converted("3.0") => NullableNodes(run.heap, run.root) = {}
  /\ Converted("3.1") =>
       /\ NotNormal30(run.heap, run.root) = {}
       /\ ~HasOwn(run.heap[run.root].ents, "jsonSchemaDialect")
       /\ ~HasOwn(run.heap[run.root].ents, "webhooks")

\* no `type` array of the document handed in has an array among its items
NoNestedTypeArray ==
  \A n \in ArrayNodes("type") :
    \A i \in 1..Len(FieldItems(run.before, n, "type")) :
      ~IsSeqVal(run.before, FieldItems(run.before, n, "type")[i])

\* Claim C30 as stated: after a successful convertSpec the whole document
\* is in the normal form of the target dialect: after 3.0 to 3.1 no
\* mapping has `nullable: true`; after 3.1 to 3.0 no mapping has a `const`
\* key, a `type` array holding "null" or an `enum` array holding null, and
\* the root has no `jsonSchemaDialect` and no `webhooks` key.
ResultIsNormalForm == NormalForm

\* Claim C30, amended: the same for the documents in which no `type`
\* array has an array among its items.
ResultIsNormalFormAmended == NoNestedTypeArray => NormalForm

\* a 3.1 document with `webhooks` and with mappings out of the normal form
\* of 3.0 at two depths has been converted
ResultIsNormalFormWitness ==
  /\ Converted("3.1")
  /\ NoNestedTypeArray
  /\ NotNormal30(run.heap, run.root) = {}
  /\ Cardinality(NotNormal30(run.before, run.root)) >= 2
  /\ HasOwn(run.before[run.root].ents, "webhooks")
  /\ ~HasOwn(run.heap[run.root].ents, "webhooks")

(***************************************************************************)
(* OASVersionService.ConvertVersion (Go).  Its convertSchemas30To31,       *)
(* convertSchemas31To30, mergeTypeWithNull, normalizeTypeArray and         *)
(* normalizeEnumNull treat the values of the model as the JS functions of  *)
(* the same names do, so the operators above stand for both.  The input    *)
(* is the text handed in: blank, not parsable, a text that parses to       *)
(* something that is no mapping, or the JSON or YAML text of a document.   *)
(***************************************************************************)
GoTexts ==
  {[text |-> t, json |-> FALSE, doc |-> CHOOSE d \in Documents : TRUE] :
     t \in {"blank", "garbage", "scalar"}}
  \cup {[text |-> "doc", json |-> j, doc |-> d] :
          j \in BOOLEAN, d \in {x \in Documents : ~x.child.some}}

\* strings.TrimSpace(fmt.Sprint(spec["openapi"])): Sprint of the nil
\* interface (key absent, or JSON null) is "<nil>"
GoRawVersion(openapiValue) ==
  IF openapiValue = Undefined \/ openapiValue = Null THEN "<nil>"
  ELSE Trim(String(openapiValue))

\* the call has returned err and no document
GoFailed(c, err) == [c EXCEPT !.status = "err", !.err = err]
\* the call has returned the converted document and its file name
GoConverted(c, heap, from, filename, json) ==
  [c EXCEPT !.heap = heap, !.status = "ok", !.from = from,
            !.filename = filename \o (IF json THEN ".json" ELSE ".yaml")]

\* ConvertVersion from the lookup of spec["openapi"] on
ConvertParsed(c, json) ==
  LET rawVersion == GoRawVersion(GetKey(c.heap[c.root].ents, "openapi")) IN
  IF rawVersion = "" THEN GoFailed(c, "ErrVersionFieldMissing")
  ELSE IF VersionPrefix(rawVersion) = "3.0"
  THEN GoConverted(c, Rewrite30To31(c.heap, c.root), "3.0", "openapi-3-1-0", json)
  ELSE IF VersionPrefix(rawVersion) = "3.1"
  THEN GoConverted(c, Rewrite31To30(c.heap, c.root), "3.1", "openapi-3-0-3", json)
  ELSE GoFailed(c, "ErrUnsupportedOASVersion")

NewGoConversion(heap, root) ==
  [f \in DOMAIN NewConversion(heap, root) \cup {"filename"} |->
     IF f = "filename" THEN "" ELSE NewConversion(heap, root)[f]]

ConvertVersion(c, oas) ==
  CASE oas.text = "blank" -> GoFailed(c, "ErrEmptyOAS")
    [] oas.text = "garbage" -> GoFailed(c, "kan YAML niet naar JSON omzetten")
    [] oas.text = "scalar" -> GoFailed(c, "kan OpenAPI specificatie niet parseren")
    [] OTHER ->
         The({ConvertParsed([NewGoConversion(d.heap, d.v.n) EXCEPT !.passes = 1], oas.json) :
                d \in {BuildDocument(oas.doc)}})

GoConvertVersion ==
  /\ run.status = "ready"
  /\ run' = ConvertVersion(run, input)
  /\ UNCHANGED input

GoConverterInit ==
  /\ input \in GoTexts
  /\ run = NewGoConversion(<<>>, 0)

GoConverterSpec == GoConverterInit /\ [][GoConvertVersion]_vars

\* Claim C18: ConvertVersion returns ErrVersionFieldMissing for every
\* parsable document whose `openapi` field is absent or empty, and
\* ErrUnsupportedOASVersion only when the field is present with a value
\* that does not begin with 3.0 or 3.1.
GoMissingVersionReported ==
  run.status # "ready" /\ input.text = "doc" =>
    /\ input.doc.openapi \in {Absent, Scalar(Str(""))} =>
         run.status = "err" /\ run.err = "ErrVersionFieldMissing"
    /\ run.status = "err" /\ run.err = "ErrUnsupportedOASVersion" =>
         /\ input.doc.openapi.has
         /\ input.doc.openapi \notin
              {Scalar(Str("3.0.3")), Scalar(Str("3.1.0")), Scalar(Str(" 3.1.0 ")),
               Scalar(Str("3.10.0"))}

(***************************************************************************)
(* jsonPointerLookup on its own: a document, a pointer, one call.  The     *)
(* pointers begin with "/" (their split begins with "").                   *)
(***************************************************************************)
\* {a: {b: ["x", "y"], "a/b": "s"}, list: ["x", "y"]} and [{a: "x"}, "y"]
LookupDocs ==
  { [heap |-> << SeqNode(<<Entry("", Str("x")), Entry("", Str("y"))>>),
                 MapNode(<<Entry("b", Obj(1)), Entry("a/b", Str("s"))>>),
                 MapNode(<<Entry("a", Obj(2)), Entry("list", Obj(1))>>) >>,
     doc |-> Obj(3)],
    [heap |-> << MapNode(<<Entry("a", Str("x"))>>),
                 SeqNode(<<Entry("", Obj(1)), Entry("", Str("y"))>>) >>,
     doc |-> Obj(2)] }

Segments == {"", "a", "b", "0", "1", "2", "1abc", "-1", "a~1b", "missing"}

RECURSIVE SegmentSeqs(_)
SegmentSeqs(n) ==
  IF n = 0 THEN {<<>>}
  ELSE LET shorter == SegmentSeqs(n - 1)
       IN shorter \cup {Append(sq, x) : sq \in {q \in shorter : Len(q) = n - 1}, x \in Segments}

\* pointer.split("/") of the pointers "/..." with up to MaxSegments segments
Pointers == {<<"">> \o segs : segs \in SegmentSeqs(MaxSegments)}

LookupInit ==
  /\ input \in {[document |-> d, pointer |-> p] : d \in LookupDocs, p \in Pointers}
  /\ run = [status |-> "ready", v |-> Undefined]

\* jsonPointerLookup(doc, pointer): the value, or the Error thrown
ApplyLookup ==
  /\ run.status = "ready"
  /\ \E found \in {jsonPointerLookup(input.document.heap, input.document.doc, input.pointer)} :
       run' = [status |-> IF found.ok THEN "found" ELSE "failed", v |-> found.v]
  /\ UNCHANGED input

LookupSpec == LookupInit /\ [][ApplyLookup]_vars

\* Claim C24: jsonPointerLookup fails whenever a segment names a key the
\* current mapping does not own or is, on a sequence, not the decimal
\* representation of an index within range; it succeeds only when every
\* segment addresses an existing child.
LookupFailsOnMissing ==
  run.status # "ready" =>
    (run.status = "found" <=>
       NamesExisting(input.document.heap, input.document.doc, input.pointer, 2))

(***************************************************************************)
(* The merge policy of resolveNode.                                        *)
(***************************************************************************)
\* resolveRef hands a resolved target back to a node with $ref
RefReturns == Returning /\ run.stack # <<>> /\ Top(run).op = "resolveRef"

\* the keys next to $ref of the node the target comes back to
Siblings == DeleteKey(run.heap[Top(run).id].ents, "$ref")

\* C21: when a node with $ref and sibling keys gets a mapping as its
\* resolved target, the merged node has the sibling's value for every
\* sibling key, also for one the target has too, and the target's value for
\* every key only the target has
SiblingsOverlayTarget ==
  [][(RefReturns /\ IsMapVal(run.heap, run.ctl.v) /\ Len(Siblings) > 0) =>
       LET target == run.heap[run.ctl.v.n].ents
           merged == run'.heap[Top(run).id].ents
       IN /\ \A i \in 1..Len(Siblings) : GetKey(merged, Siblings[i].k) = Siblings[i].v
          /\ \A i \in 1..Len(target) :
               /\ HasOwn(merged, target[i].k)
               /\ ~HasOwn(Siblings, target[i].k) => GetKey(merged, target[i].k) = target[i].v]_vars

\* the step takes the $ref of node id away
Settles(id) ==
  /\ run.status = "run" /\ run'.status = "run"
  /\ id \in 1..Len(run.heap)
  /\ run.heap[id].kind = "map" /\ HasRef(run.heap[id].ents)
  /\ ~HasOwn(run'.heap[id].ents, "$ref")

\* the resolved target the step hands to the node is not a mapping: a
\* sequence comes back from resolveRef, a scalar is never on the way
ScalarOrSequence == RefReturns => ~IsMapVal(run.heap, run.ctl.v)

\* C22: when the resolved target of a $ref is a scalar or a sequence, a node
\* with no key but $ref is replaced by the resolved value, and a node with
\* sibling keys stays, without $ref, with every sibling key and with the
\* resolved value under the key "value"
ScalarReplacesOrAttaches ==
  [][\A id \in 1..Len(run.heap) :
       (Settles(id) /\ ScalarOrSequence) =>
         LET siblings == DeleteKey(run.heap[id].ents, "$ref")
             after == run'.heap[id].ents
         IN IF Len(siblings) = 0
            THEN /\ run'.ctl.mode = "ret"
                 /\ run'.ctl.v # Obj(id)
                 /\ ~IsMapVal(run'.heap, run'.ctl.v)
                 /\ RefReturns => run'.ctl.v = run.ctl.v
            ELSE /\ run'.ctl.mode = "call" /\ run'.ctl.v = Obj(id)
                 /\ {after[i].k : i \in 1..Len(after)}
                      = {siblings[i].k : i \in 1..Len(siblings)} \cup {"value"}
                 /\ \A i \in 1..Len(siblings) :
                      siblings[i].k # "value" => GetKey(after, siblings[i].k) = siblings[i].v
                 /\ ~IsMapVal(run'.heap, GetKey(after, "value"))
                 /\ RefReturns => GetKey(after, "value") = run.ctl.v]_vars

\* a node with a sibling key has just got a sequence under "value"
ScalarReplacesOrAttachesWitness ==
  /\ Calling /\ IsMapVal(run.heap, run.ctl.v)
  /\ LET ents == run.heap[run.ctl.v.n].ents
     IN /\ HasOwn(ents, "extra") /\ ~HasOwn(ents, "$ref")
        /\ IsSeqVal(run.heap, GetKey(ents, "value"))

(***************************************************************************)
(* Inclusion by copy.                                                      *)
(***************************************************************************)
\* the mappings and sequences of the returned tree
ResultNodes == Closure(run.heap, {run.result.n})

\* the places of the returned tree that hold node c
HoldersOf(c) ==
  UNION {{<<n, i>> : i \in {j \in 1..Len(run.heap[n].ents) : run.heap[n].ents[j].v = Obj(c)}} :
           n \in ResultNodes}

\* the nodes of the remote documents in the store
RemoteNodes ==
  Closure(run.heap, {run.docs[k] : k \in DOMAIN run.docs \ {ROOT_KEY}})

\* C23: in the tree resolveNode returns no mapping or sequence is held in
\* two places, the root in none, and none belongs to a remote document of
\* the store: every inclusion site has a copy of its own
NoAliasing ==
  run.status = "done" =>
    /\ \A c \in ResultNodes :
         Cardinality(HoldersOf(c)) = (IF c = run.result.n THEN 0 ELSE 1)
    /\ ResultNodes \cap RemoteNodes = {}

\* a sequence of a remote document has been included at two sites
NoAliasingWitness ==
  /\ run.status = "done"
  /\ \E a, b \in ResultNodes :
       /\ a # b
       /\ run.heap[a].kind = "seq" /\ run.heap[b].kind = "seq"
       /\ \E r \in RemoteNodes : run.heap[r].kind = "seq" /\ Len(run.heap[r].ents) = Len(run.heap[a].ents)

(***************************************************************************)
(* What a successful resolveNode leaves behind.                            *)
(***************************************************************************)
\* the mappings under v that still have a $ref with a non-blank string
RefsLeft(v) ==
  {n \in Closure(run.heap, {v.n}) :
     LET ref == GetKey(run.heap[n].ents, "$ref")
     IN run.heap[n].kind = "map" /\ IsStr(ref) /\ Trim(ref.s) # ""}

\* C28: whenever resolveNode returns, no mapping of the returned tree has a
\* $ref key with a non-blank string
AllRefsInlined ==
  /\ (Returning /\ IsObj(run.ctl.v)) => RefsLeft(run.ctl.v) = {}
  /\ run.status = "done" => RefsLeft(run.result) = {}

\* a document of the request has a $ref key that holds a mapping
RefHoldsMapping ==
  \E text \in {input.oasBody} \cup {input.world[u] : u \in DOMAIN input.world} :
    \E i \in 1..Len(text.slots) : text.slots[i].kind = "nested"

\* C28, amended: whenever resolveNode returns for documents in which no
\* $ref key holds a mapping, no mapping of the returned tree has a $ref key
\* with a non-blank string
AllRefsInlinedAmended == ~RefHoldsMapping => AllRefsInlined

\* a call has returned a tree in which a merged target and a sibling key
\* had references of their own
AllRefsInlinedWitness ==
  /\ ~RefHoldsMapping
  /\ run.status = "done"
  /\ \E n \in Closure(run.heap, {run.result.n}) :
       /\ HasOwn(run.heap[n].ents, "extra")
       /\ IsSeqVal(run.heap, GetKey(run.heap[n].ents, "value"))
       /\ IsMapVal(run.heap, GetKey(run.heap[n].ents, "extra"))
       /\ ~HasOwn(run.heap[GetKey(run.heap[n].ents, "extra").n].ents, "$ref")

====
